---- MODULE Spec2Model ----
(***************************************************************************)
(* Model of the Hoymiles HM radio link of MyElectricityMonitor             *)
(* (src/HoymilesHmDtu.py): packet building, byte stuffing, checksums,      *)
(* response-set evaluation and the retry loop of QueryInverterInfo.        *)
(*                                                                         *)
(* Bytes are integers 0..255, byte strings are sequences (1-based, so      *)
(* Python's data[i] is data[i + 1] here).  A Python call that may raise    *)
(* is an operator returning a record with a field "raised".                *)
(***************************************************************************)
EXTENDS Integers, Sequences, FiniteSets, TLC

Min(a, b) == IF a < b THEN a ELSE b

Max(a, b) == IF a > b THEN a ELSE b

(* Python's a ^ b on non-negative integers. *)
RECURSIVE BitXor(_, _)
BitXor(a, b) ==
    IF a = 0 THEN b
    ELSE IF b = 0 THEN a
    ELSE (((a % 2) + (b % 2)) % 2) + 2 * BitXor(a \div 2, b \div 2)

(* Python's a | b on non-negative integers. *)
RECURSIVE BitOr(_, _)
BitOr(a, b) ==
    IF a = 0 THEN b
    ELSE IF b = 0 THEN a
    ELSE Max(a % 2, b % 2) + 2 * BitOr(a \div 2, b \div 2)

(* Python's data[a:b] for 0 <= a and any b already made non-negative. *)
PySlice(data, a, b) == SubSeq(data, a + 1, Min(b, Len(data)))

(* Python's data[a:-1]. *)
PySliceDropLast(data, a) == SubSeq(data, a + 1, Len(data) - 1)

(* Python's data[-2:]. *)
PyLastTwo(data) == SubSeq(data, Max(1, Len(data) - 1), Len(data))

(* int.from_bytes(data, "big"); the empty string gives 0. *)
RECURSIVE IntFromBytesBig(_)
IntFromBytesBig(data) ==
    IF Len(data) = 0 THEN 0
    ELSE 256 * IntFromBytesBig(SubSeq(data, 1, Len(data) - 1)) + data[Len(data)]

(* value.to_bytes(n, "big", signed=False) for a value that fits. *)
RECURSIVE ToBytesBig(_, _)
ToBytesBig(value, n) ==
    IF n = 0 THEN << >>
    ELSE Append(ToBytesBig(value \div 256, n - 1), value % 256)

(* bytearray(n): n zero bytes. *)
ZeroBytes(n) == [i \in 1..n |-> 0]

(***************************************************************************)
(* Checksums                                                               *)
(***************************************************************************)

(* The pass of the inner loop with the polynomial 0x107 in place of 0x101: *)
(* with it C28 fails.                                                      *)
Crc8ShiftStepPoly07(crc) ==
    LET s == crc * 2
    IN  (IF (s \div 256) % 2 = 1 THEN BitXor(s, 7) ELSE s) % 256

(* One pass of the inner loop of __CalculateCrc8:                          *)
(*   crc <<= 1; if crc & 0x0100: crc ^= 0x01; crc &= 0xFF                  *)
Crc8ShiftStep(crc) ==
    LET s == crc * 2
    IN  (IF (s \div 256) % 2 = 1 THEN BitXor(s, 1) ELSE s) % 256

RECURSIVE Crc8Shift(_, _)
Crc8Shift(crc, n) == IF n = 0 THEN crc ELSE Crc8Shift(Crc8ShiftStep(crc), n - 1)

(* The outer loop of __CalculateCrc8 from index idx.  The test crc >= 0,   *)
(* always true, makes TLC compute crc before the next pass.                *)
RECURSIVE Crc8Loop(_, _, _, _)
Crc8Loop(data, dataLen, idx, crc) ==
    IF crc >= 0 /\ idx >= dataLen THEN crc
    ELSE Crc8Loop(data, dataLen, idx + 1, Crc8Shift(BitXor(crc, data[idx + 1]), 8))

CalculateCrc8(data, dataLen) == Crc8Loop(data, dataLen, 0, 0)

(* The pass of the inner loop with the reversed polynomial 0x8408 in place *)
(* of 0xA001: with it C29 fails.                                           *)
Crc16ShiftStepPoly8408(crc) ==
    IF crc % 2 = 1 THEN BitXor(crc \div 2, 33800) ELSE crc \div 2

(* One pass of the inner loop of __CalculateCrc16. *)
Crc16ShiftStep(crc) ==
    IF crc % 2 = 1 THEN BitXor(crc \div 2, 40961) ELSE crc \div 2

RECURSIVE Crc16Shift(_, _)
Crc16Shift(crc, n) == IF n = 0 THEN crc ELSE Crc16Shift(Crc16ShiftStep(crc), n - 1)

(* The outer loop of __CalculateCrc16 from index idx (crc >= 0 as above). *)
RECURSIVE Crc16Loop(_, _, _, _)
Crc16Loop(data, dataLen, idx, crc) ==
    IF crc >= 0 /\ idx >= dataLen THEN crc
    ELSE Crc16Loop(data, dataLen, idx + 1, Crc16Shift(BitXor(crc, data[idx + 1]), 8))

CalculateCrc16(data, dataLen) == Crc16Loop(data, dataLen, 0, 65535)

(* __CheckChecksum: CRC8 of all but the last byte against the last byte.   *)
(* Only called on packets that have a byte at index 9.                     *)
CheckChecksum(packet) ==
    CalculateCrc8(packet, Len(packet) - 1) = packet[Len(packet)]

(***************************************************************************)
(* Byte stuffing                                                           *)
(***************************************************************************)

(* A variant of EscapeByte with the codes of 0x7E and 0x7F exchanged: with *)
(* it C12 fails.                                                           *)
EscapeByteCodesExchanged(b) ==
    IF b = 125 THEN <<125, 93>>
    ELSE IF b = 126 THEN <<125, 95>>
    ELSE IF b = 127 THEN <<125, 94>>
    ELSE <<b>>

(* A variant of EscapeByte that lets 0x7F through: with it C13 fails. *)
EscapeByteWithout7F(b) ==
    IF b = 125 THEN <<125, 93>>
    ELSE IF b = 126 THEN <<125, 94>>
    ELSE <<b>>

(* What the loop body of __EscapeData appends for the byte b, lines 577-588. *)
EscapeByte(b) ==
    IF b = 125 THEN <<125, 93>>
    ELSE IF b = 126 THEN <<125, 94>>
    ELSE IF b = 127 THEN <<125, 95>>
    ELSE <<b>>

RECURSIVE EscapeData(_)
EscapeData(input) ==
    IF Len(input) = 0 THEN << >>
    ELSE EscapeByte(Head(input)) \o EscapeData(Tail(input))

RaisedValue == [raised |-> TRUE, value |-> << >>]

Returned(v) == [raised |-> FALSE, value |-> v]

(* The while loop of __UnescapeData from position idx.  input[idx] past    *)
(* the end is Python's IndexError, an unknown second byte the explicit     *)
(* Exception; both leave the function by raising.                          *)
RECURSIVE UnescapeLoop(_, _, _)
UnescapeLoop(input, idx, output) ==
    IF idx >= Len(input) THEN Returned(output)
    ELSE LET b == input[idx + 1]
         IN  IF b = 125
             THEN IF idx + 1 >= Len(input) THEN RaisedValue
                  ELSE LET b2 == input[idx + 2]
                       IN  IF b2 = 93 THEN UnescapeLoop(input, idx + 2, Append(output, 125))
                           ELSE IF b2 = 94 THEN UnescapeLoop(input, idx + 2, Append(output, 126))
                           ELSE IF b2 = 95 THEN UnescapeLoop(input, idx + 2, Append(output, 127))
                           ELSE RaisedValue
             ELSE UnescapeLoop(input, idx + 1, Append(output, b))

(* A variant of UnescapeData that drops a 0x7D at the end of the input     *)
(* instead of raising: with it C14 fails.                                  *)
UnescapeDataDroppingLastEscape(input) ==
    IF Len(input) > 0 /\ input[Len(input)] = 125
    THEN UnescapeLoop(SubSeq(input, 1, Len(input) - 1), 0, << >>)
    ELSE UnescapeLoop(input, 0, << >>)

UnescapeData(input) == UnescapeLoop(input, 0, << >>)

(***************************************************************************)
(* Request building                                                        *)
(***************************************************************************)

MAX_PACKET_SIZE == 32

(* __CreatePacketHeader: raises unless both addresses are 4 bytes long. *)
CreatePacketHeader(command, receiverAddr, senderAddr, frame) ==
    IF Len(receiverAddr) # 4 \/ Len(senderAddr) # 4 THEN RaisedValue
    ELSE Returned(<<command>> \o receiverAddr \o senderAddr \o <<frame>>)

(* A variant of CreateRequestInfoPayload with the byte 0x05 one place      *)
(* early: with it C10 fails.                                               *)
CreateRequestInfoPayloadShifted(currentTime) ==
    IF currentTime[1] >= 65536 THEN RaisedValue
    ELSE Returned(<<11, 0>> \o ToBytesBig(currentTime[1], 2) \o ToBytesBig(currentTime[2], 2)
                  \o <<0, 0, 5, 0>> \o ZeroBytes(4))

(* __CreateRequestInfoPayload.  TLC integers are 32-bit signed, so the    *)
(* value int(currentTime) is kept as the pair <<hi, lo>> of its upper and  *)
(* lower 16 bits (value = 65536 * hi + lo, 0 <= lo < 65536);               *)
(* to_bytes(4, "big") raises OverflowError from 2^32 on, i.e. hi >= 65536. *)
CreateRequestInfoPayload(currentTime) ==
    IF currentTime[1] >= 65536 THEN RaisedValue
    ELSE Returned(<<11, 0>> \o ToBytesBig(currentTime[1], 2) \o ToBytesBig(currentTime[2], 2)
                  \o <<0, 0, 0, 5>> \o ZeroBytes(4))

(* The packet of __CreateRequestInfoPacket before the escaping of line 658. *)
RequestInfoPacketUnescaped(receiverAddr, senderAddr, currentTime) ==
    LET header  == CreatePacketHeader(21, receiverAddr, senderAddr, 128).value
        payload == CreateRequestInfoPayload(currentTime).value
        p1      == header \o payload
        p2      == p1 \o ToBytesBig(CalculateCrc16(payload, Len(payload)), 2)
    IN  p2 \o ToBytesBig(CalculateCrc8(p2, Len(p2)), 1)

CreateRequestInfoPacket(receiverAddr, senderAddr, currentTime) ==
    IF CreatePacketHeader(21, receiverAddr, senderAddr, 128).raised THEN RaisedValue
    ELSE IF CreateRequestInfoPayload(currentTime).raised THEN RaisedValue
    ELSE LET packet == RequestInfoPacketUnescaped(receiverAddr, senderAddr, currentTime)
         IN  IF Len(packet) # 27 THEN RaisedValue
             ELSE LET escaped == EscapeData(packet)
                  IN  IF Len(escaped) > MAX_PACKET_SIZE THEN RaisedValue
                      ELSE Returned(escaped)

(***************************************************************************)
(* Construction: serial number, addresses, channel count                   *)
(***************************************************************************)

HexDigits == <<"0", "1", "2", "3", "4", "5", "6", "7", "8", "9",
               "A", "B", "C", "D", "E", "F">>

IsHexDigit(ch) == \E i \in 1..16 : HexDigits[i] = ch

HexValue(ch) == (CHOOSE i \in 1..16 : HexDigits[i] = ch) - 1

(* bytearray.fromhex(s): two hex digits per byte, ValueError otherwise. *)
FromHex(s) ==
    IF Len(s) % 2 # 0 \/ \E i \in 1..Len(s) : ~IsHexDigit(s[i]) THEN RaisedValue
    ELSE Returned([i \in 1..(Len(s) \div 2) |->
                      16 * HexValue(s[2 * i - 1]) + HexValue(s[2 * i])])

(* __GetInverterRadioAddress: inverterSerialNumber[4:] read as hex. *)
GetInverterRadioAddress(inverterSerialNumber) ==
    FromHex(PySlice(inverterSerialNumber, 4, Len(inverterSerialNumber)))

(* A variant of GetInverterNumberOfChannels that returns the 3 its         *)
(* docstring announces for the prefixes 61, 62, 64: with it C16 fails.     *)
GetInverterNumberOfChannelsAsDocumented(inverterSerialNumber) ==
    LET s == PySlice(inverterSerialNumber, 2, 4)
    IN  IF PySlice(inverterSerialNumber, 0, 2) \in {<<"1", "0">>, <<"1", "1">>}
        THEN IF s \in {<<"2", "1">>, <<"2", "2">>, <<"2", "4">>} THEN Returned(1)
             ELSE IF s \in {<<"4", "1">>, <<"4", "2">>, <<"4", "4">>} THEN Returned(2)
             ELSE IF s \in {<<"6", "1">>, <<"6", "2">>, <<"6", "4">>} THEN Returned(3)
             ELSE RaisedValue
        ELSE RaisedValue

(* __GetInverterNumberOfChannels *)
GetInverterNumberOfChannels(inverterSerialNumber) ==
    LET s == PySlice(inverterSerialNumber, 2, 4)
    IN  IF PySlice(inverterSerialNumber, 0, 2) \in {<<"1", "0">>, <<"1", "1">>}
        THEN IF s \in {<<"2", "1">>, <<"2", "2">>, <<"2", "4">>} THEN Returned(1)
             ELSE IF s \in {<<"4", "1">>, <<"4", "2">>, <<"4", "4">>} THEN Returned(2)
             ELSE IF s \in {<<"6", "1">>, <<"6", "2">>, <<"6", "4">>} THEN Returned(4)
             ELSE RaisedValue
        ELSE RaisedValue

(* The loop of __GenerateDtuRadioAddress, id |= u % 10; id <<= 4; u //= 10,*)
(* without the shift of its last pass: the result is below 2^28.           *)
RECURSIVE DtuIdLoop(_, _, _)
DtuIdLoop(u, id, n) ==
    IF n = 1 THEN BitOr(id, u % 10)
    ELSE DtuIdLoop(u \div 10, BitOr(id, u % 10) * 16, n - 1)

(* __GenerateDtuRadioAddress for uuid.uuid1().int = u; the loop reads only *)
(* the seven low decimal digits of u.  With x the value of DtuIdLoop, the  *)
(* code's id is 16 * x, and (16 * x | 0x80000000).to_bytes(4, "big") is    *)
(* computed bytewise because 2^31 is no TLC integer.                       *)
GenerateDtuRadioAddress(u) ==
    LET x == DtuIdLoop(u, 0, 7)
    IN  <<BitOr((x \div 1048576) % 256, 128), (x \div 4096) % 256,
          (x \div 16) % 256, (x % 16) * 16>>

(***************************************************************************)
(* Response evaluation and reading extraction                              *)
(***************************************************************************)

EmptyMap == << >>

(* int.from_bytes(responseData[a:b], "big") / divisor, kept as the pair    *)
(* <<integer, divisor>>.                                                   *)
Field(responseData, a, b, divisor) ==
    <<IntFromBytesBig(PySlice(responseData, a, b)), divisor>>

DcChannel(d, v, i, p, etotal, eday) ==
    ("DC V" :> Field(d, v, v + 2, 10)) @@
    ("DC I" :> Field(d, i, i + 2, 100)) @@
    ("DC P" :> Field(d, p, p + 2, 10)) @@
    ("DC E total" :> Field(d, etotal, etotal + 4, 1000)) @@
    ("DC E day" :> Field(d, eday, eday + 2, 1))

(* The inverter-level keys, 16 consecutive bytes from offset a. *)
AcFields(d, a) ==
    ("AC V" :> Field(d, a, a + 2, 10)) @@
    ("AC F" :> Field(d, a + 2, a + 4, 100)) @@
    ("AC P" :> Field(d, a + 4, a + 6, 10)) @@
    ("Q" :> Field(d, a + 6, a + 8, 10)) @@
    ("AC I" :> Field(d, a + 8, a + 10, 100)) @@
    ("AC PF" :> Field(d, a + 10, a + 12, 1000)) @@
    ("T" :> Field(d, a + 12, a + 14, 10)) @@
    ("EVT" :> Field(d, a + 14, a + 16, 1))

(* The one-channel decoder with the inverter-level fields read one byte    *)
(* early: with it C32 fails.                                               *)
ExtractInverterInfoOneChannelShifted(responseData) ==
    ("Channels" :> <<DcChannel(responseData, 2, 4, 6, 8, 12)>>) @@
    AcFields(responseData, 13)

ExtractInverterInfoOneChannel(responseData) ==
    ("Channels" :> <<DcChannel(responseData, 2, 4, 6, 8, 12)>>) @@
    AcFields(responseData, 14)

ExtractInverterInfoTwoChannels(responseData) ==
    ("Channels" :> <<DcChannel(responseData, 2, 4, 6, 14, 22),
                     DcChannel(responseData, 8, 10, 12, 18, 24)>>) @@
    AcFields(responseData, 26)

ExtractInverterInfoFourChannels(responseData) ==
    ("Channels" :> <<DcChannel(responseData, 2, 4, 8, 12, 20),
                     DcChannel(responseData, 2, 6, 10, 16, 22),
                     DcChannel(responseData, 24, 26, 30, 34, 42),
                     DcChannel(responseData, 24, 28, 32, 38, 44)>>) @@
    AcFields(responseData, 46)

(* A variant of PayloadCrcMatches that compares nothing: with it C4 fails. *)
PayloadCrcUnchecked(responseData) == TRUE

(* The CRC16 comparison of __ExtractInverterInfo, lines 288-290. *)
PayloadCrcMatches(responseData) ==
    IntFromBytesBig(PyLastTwo(responseData))
        = CalculateCrc16(responseData, Len(responseData) - 2)

ExtractInverterInfo(responseData, numberOfChannels) ==
    IF ~PayloadCrcMatches(responseData)
    THEN [raised |-> FALSE, success |-> FALSE, info |-> EmptyMap]
    ELSE IF numberOfChannels = 1
    THEN [raised |-> FALSE, success |-> TRUE,
          info |-> ExtractInverterInfoOneChannel(responseData)]
    ELSE IF numberOfChannels = 2
    THEN [raised |-> FALSE, success |-> TRUE,
          info |-> ExtractInverterInfoTwoChannels(responseData)]
    ELSE IF numberOfChannels = 4
    THEN [raised |-> FALSE, success |-> TRUE,
          info |-> ExtractInverterInfoFourChannels(responseData)]
    ELSE [raised |-> TRUE, success |-> FALSE, info |-> EmptyMap]

(* A variant of FrameNumberExpected that never sets the last-frame bit:    *)
(* with it C3 fails.                                                       *)
FrameNumberWithoutLastBit(idx, numberOfResponses) == idx + 1

(* frameNumberExpected of __EvaluateInverterInfoResponse for loop index idx. *)
FrameNumberExpected(idx, numberOfResponses) ==
    IF idx + 1 = numberOfResponses THEN BitOr(idx + 1, 128) ELSE idx + 1

(* A variant of AddressesDiffer that compares no address: with it C7 fails. *)
AddressesNeverDiffer(response, inverterRadioAddress) == FALSE

(* The address comparison of __EvaluateInverterInfoResponse, lines 471-474.*)
AddressesDiffer(response, inverterRadioAddress) ==
    \/ PySlice(response, 1, 5) # inverterRadioAddress
    \/ PySlice(response, 5, 9) # inverterRadioAddress

(* The for loop of __EvaluateInverterInfoResponse from index idx.          *)
(* response[9] on a frame of fewer than 10 bytes is Python's IndexError.   *)
RECURSIVE EvaluateLoop(_, _, _, _, _)
EvaluateLoop(responseList, inverterRadioAddress, numberOfResponses, idx, responseData) ==
    IF idx >= numberOfResponses
    THEN [raised |-> FALSE, success |-> TRUE, data |-> responseData]
    ELSE LET response == responseList[idx + 1]
         IN  IF Len(response) < 10
             THEN [raised |-> TRUE, success |-> FALSE, data |-> responseData]
             ELSE IF response[10] # FrameNumberExpected(idx, numberOfResponses)
             THEN [raised |-> FALSE, success |-> FALSE, data |-> responseData]
             ELSE IF AddressesDiffer(response, inverterRadioAddress)
             THEN [raised |-> FALSE, success |-> FALSE, data |-> responseData]
             ELSE IF ~CheckChecksum(response)
             THEN [raised |-> FALSE, success |-> FALSE, data |-> responseData]
             ELSE EvaluateLoop(responseList, inverterRadioAddress, numberOfResponses,
                               idx + 1, responseData \o PySliceDropLast(response, 10))

EvaluateInverterInfoResponse(responseList, inverterRadioAddress, inverterNumberOfChannels) ==
    IF Len(responseList) # inverterNumberOfChannels + 1
    THEN [raised |-> FALSE, success |-> FALSE, data |-> << >>]
    ELSE EvaluateLoop(responseList, inverterRadioAddress,
                      inverterNumberOfChannels + 1, 0, << >>)

(***************************************************************************)
(* Inputs: the frames the radio can deliver                                *)
(***************************************************************************)

(* Largest number of frames the radio delivers during one scan. *)
MaxFrames == 3

(* Largest numberOfRetries a caller passes. *)
MaxRetries == 2

(* Serial numbers the constructor accepts: a one-channel inverter and the  *)
(* two-channel inverter of the example at the end of HoymilesHmDtu.py.     *)
SerialNumbers ==
    { <<"1", "1", "2", "1", "8", "2", "3", "4", "5", "6", "7", "8">>,
      <<"1", "1", "4", "1", "8", "4", "0", "2", "0", "8", "7", "4">> }

(* Values of uuid.uuid1().int, by their seven low decimal digits. *)
UuidValues == { 1234567 }

(* Values of int(time.time()) as <<upper 16 bits, lower 16 bits>>:         *)
(* 0x6907F080 and 0x687D7E7F, whose bytes need escaping.                   *)
Timestamps == { <<26887, 61568>>, <<26749, 32383>> }

(* The 30 data bytes a one-channel inverter reports. *)
InverterData1 ==
    <<0, 1, 1, 126, 0, 200, 2, 252, 0, 0, 48, 57, 1, 44, 9, 26,
      19, 136, 2, 218, 0, 0, 0, 31, 3, 232, 0, 250, 0, 1>>

(* The 42 data bytes a two-channel inverter reports. *)
InverterData2 ==
    <<0, 1, 1, 126, 0, 200, 2, 252, 1, 127, 0, 150, 2, 58, 0, 0,
      48, 57, 0, 0, 26, 133, 1, 44, 0, 200, 9, 26, 19, 136, 5, 20,
      0, 0, 0, 60, 3, 232, 0, 250, 0, 1>>

InverterData(numberOfChannels) ==
    IF numberOfChannels = 1 THEN InverterData1 ELSE InverterData2

(* The logical message of the inverter: data followed by its CRC16. *)
InverterMessage(data) == data \o ToBytesBig(CalculateCrc16(data, Len(data)), 2)

(* The part of the message carried by frame i, 16 bytes per frame. *)
MessageChunk(message, i) == PySlice(message, 16 * (i - 1), 16 * i)

(* A frame as the inverter puts it on the air: header, payload, CRC8,      *)
(* then byte stuffing.                                                     *)
WireFrame(command, address1, address2, frameNumber, payload) ==
    LET body == <<command>> \o address1 \o address2 \o <<frameNumber>> \o payload
    IN  EscapeData(body \o <<CalculateCrc8(body, Len(body))>>)

(* Frame i of the numberOfChannels + 1 frames of a correct response. *)
GoodFrame(address, numberOfChannels, i) ==
    WireFrame(149, address, address, FrameNumberExpected(i - 1, numberOfChannels + 1),
              MessageChunk(InverterMessage(InverterData(numberOfChannels)), i))

(* Frame 1 of another inverter: its own address, valid CRC8. *)
WrongAddressFrame(address, numberOfChannels) ==
    LET other == SubSeq(address, 1, 3) \o <<(address[4] + 1) % 256>>
    IN  WireFrame(149, other, other, 1,
                  MessageChunk(InverterMessage(InverterData(numberOfChannels)), 1))

(* Frame 1 with its CRC8 byte damaged. *)
BadChecksumFrame(address, numberOfChannels) ==
    LET good == UnescapeData(GoodFrame(address, numberOfChannels, 1)).value
    IN  EscapeData(SubSeq(good, 1, Len(good) - 1) \o <<BitXor(good[Len(good)], 255)>>)

(* The last frame with a damaged data byte and a CRC8 that matches it:     *)
(* the frame is valid, the CRC16 of the reassembled message is not.        *)
BadPayloadFrame(address, numberOfChannels) ==
    LET n     == numberOfChannels + 1
        chunk == MessageChunk(InverterMessage(InverterData(numberOfChannels)), n)
    IN  WireFrame(149, address, address, FrameNumberExpected(n - 1, n),
                  <<BitXor(chunk[1], 1)>> \o Tail(chunk))

(* A frame cut off after 5 bytes. *)
TruncatedFrame(address) == <<149>> \o address

(* A 10-byte frame: header only, no payload, no CRC8 byte. *)
HeaderOnlyFrame(address, frameNumber) ==
    <<frameNumber>> \o address \o address \o <<frameNumber>>

(* A frame with 0x7D followed by a byte that is no escape code. *)
BadEscapeFrame(address) == <<149>> \o address \o <<125, 0, 1>>

FrameMenu(address, numberOfChannels) ==
    { GoodFrame(address, numberOfChannels, i) : i \in 1..(numberOfChannels + 1) }
    \cup { WrongAddressFrame(address, numberOfChannels),
           BadChecksumFrame(address, numberOfChannels),
           BadPayloadFrame(address, numberOfChannels),
           TruncatedFrame(address),
           HeaderOnlyFrame(address, 1),
           BadEscapeFrame(address) }

(* The sequences of at most MaxFrames frames of a menu. *)
FrameLists(menu) == UNION { [1..k -> menu] : k \in 0..MaxFrames }

(***************************************************************************)
(* State                                                                   *)
(***************************************************************************)

VARIABLES
    pc,                        \* position of the caller / of QueryInverterInfo
    inverterSerialNumber,      \* self.__inverterSerialNumber
    dtuRadioAddress,           \* self.__dtuRadioAddress
    inverterRadioAddress,      \* self.__inverterRadioAddress
    inverterNumberOfChannels,  \* self.__inverterNumberOfChannels
    radioReady,                \* self.__radio is not None
    paLevel,                   \* the radio's power level: "MIN" or "MAX"
    listening,                 \* the radio is in listening (receive) mode
    gcEnabled,                 \* the garbage collector is enabled
    numberOfRetries,           \* argument of QueryInverterInfo
    retryIndex,                \* loop variable of QueryInverterInfo
    txChannel,                 \* transmit channel of the attempt, 0 outside a send
    rxChannelList,             \* receive channels of the attempt
    currentTime,               \* int(time.time()) of the attempt, <<hi, lo>>
    txPacket,                  \* request packet of the attempt, until written
    responseList,              \* frames of the last scan, unescaped
    verdict,                   \* result of the last attempt
    outcome,                   \* how QueryInverterInfo ended
    writeCount,                \* number of radio.write calls so far
    scanCount,                 \* number of finished scans so far
    sleepCount,                \* number of time.sleep calls so far
    argument,                  \* argument of a function called on its own
    result                     \* what that call returned or raised

vars == <<pc, inverterSerialNumber, dtuRadioAddress, inverterRadioAddress,
          inverterNumberOfChannels, radioReady, paLevel, listening, gcEnabled,
          numberOfRetries, retryIndex, txChannel, rxChannelList, currentTime,
          txPacket, responseList, verdict, outcome, writeCount, scanCount,
          sleepCount, argument, result>>

callVars == <<argument, result>>

queryVars == <<radioReady, paLevel, listening, gcEnabled, numberOfRetries, retryIndex,
               txChannel, rxChannelList, currentTime, txPacket, responseList, verdict,
               outcome, writeCount, scanCount, sleepCount>>

attemptVars == <<txChannel, rxChannelList, currentTime, txPacket>>

objectVars == <<inverterSerialNumber, dtuRadioAddress, inverterRadioAddress,
                inverterNumberOfChannels>>

TX_CHANNELS == <<3, 23, 40, 61, 75>>

(* A variant of RX_CHANNEL_LISTS whose first list starts with its own      *)
(* transmit channel: with it C9 fails.                                     *)
RxChannelListsWithTxChannel ==
    (3 :> <<3, 40, 61>>) @@ (23 :> <<40, 61, 75>>) @@ (40 :> <<61, 75, 3>>) @@
    (61 :> <<75, 3, 23>>) @@ (75 :> <<3, 23, 40>>)

RX_CHANNEL_LISTS ==
    (3 :> <<23, 40, 61>>) @@ (23 :> <<40, 61, 75>>) @@ (40 :> <<61, 75, 3>>) @@
    (61 :> <<75, 3, 23>>) @@ (75 :> <<3, 23, 40>>)

Pending == [kind |-> "pending", success |-> FALSE, info |-> EmptyMap]

Raised == [kind |-> "raised", success |-> FALSE, info |-> EmptyMap]

ReturnValue(success, info) == [kind |-> "returned", success |-> success, info |-> info]

(* A variant of FinallyPaLevel that leaves the power level as it is: with  *)
(* it C2 fails.                                                            *)
FinallyPaLevelKept == paLevel

(* The power level the finally clause of QueryInverterInfo sets, line 188. *)
FinallyPaLevel == "MIN"

(* __init__ has run for an accepted serial number; no radio object yet. *)
Init ==
    /\ pc = "constructed"
    /\ inverterSerialNumber \in SerialNumbers
    /\ \E u \in UuidValues : dtuRadioAddress = GenerateDtuRadioAddress(u)
    /\ inverterRadioAddress = GetInverterRadioAddress(inverterSerialNumber).value
    /\ inverterNumberOfChannels = GetInverterNumberOfChannels(inverterSerialNumber).value
    /\ radioReady = FALSE
    /\ paLevel = "MIN"
    /\ listening = FALSE
    /\ gcEnabled = TRUE
    /\ numberOfRetries = 0
    /\ retryIndex = 0
    /\ txChannel = 0
    /\ rxChannelList = << >>
    /\ currentTime = <<0, 0>>
    /\ txPacket = << >>
    /\ responseList = << >>
    /\ verdict = "none"
    /\ outcome = Pending
    /\ writeCount = 0
    /\ scanCount = 0
    /\ sleepCount = 0
    /\ argument = << >>
    /\ result = << >>

(* InitializeCommunication, lines 114-139. *)
InitializeCommunication ==
    /\ pc = "constructed"
    /\ pc' = "ready"
    /\ radioReady' = TRUE
    /\ listening' = FALSE
    /\ paLevel' = "MIN"
    /\ UNCHANGED <<callVars, objectVars, gcEnabled, numberOfRetries, retryIndex, attemptVars,
                   responseList, verdict, outcome, writeCount, scanCount, sleepCount>>

(* QueryInverterInfo called before InitializeCommunication, lines 152-153. *)
QueryNotInitialized ==
    /\ pc = "constructed"
    /\ \E n \in 0..MaxRetries : numberOfRetries' = n
    /\ pc' = "done"
    /\ outcome' = Raised
    /\ UNCHANGED <<callVars, objectVars, radioReady, paLevel, listening, gcEnabled, retryIndex,
                   attemptVars, responseList, verdict, writeCount, scanCount,
                   sleepCount>>

(* A variant of RangeYields that runs one attempt more: with it C5 fails. *)
RangeOneLonger(index, n) == index <= n

(* for retryIndex in range(numberOfRetries), line 164: whether the range   *)
(* yields the value index.                                                 *)
RangeYields(index, n) == index < n

(* A variant of SleepsBeforeAttempt that also waits before the first       *)
(* attempt: with it C6 fails.                                              *)
SleepsBeforeEveryAttempt(index) == index >= 0

(* if retryIndex > 0, line 166. *)
SleepsBeforeAttempt(index) == index > 0

(* QueryInverterInfo up to the for loop, lines 152-162. *)
QueryStart ==
    /\ pc = "ready"
    /\ \E n \in 0..MaxRetries : numberOfRetries' = n
    /\ retryIndex' = 0
    /\ paLevel' = "MAX"
    /\ pc' = "loop"
    /\ UNCHANGED <<callVars, objectVars, radioReady, listening, gcEnabled, attemptVars,
                   responseList, verdict, outcome, writeCount, scanCount, sleepCount>>

(* The head of the for loop, lines 164-167: the next value of the range    *)
(* and the wait before a retry, or, the range used up, the finally clause  *)
(* and the return of lines 188-190.  Going on, the response list and the   *)
(* result of the attempt before are not read again.                        *)
LoopHead ==
    /\ pc = "loop"
    /\ IF RangeYields(retryIndex, numberOfRetries)
       THEN /\ sleepCount' = IF SleepsBeforeAttempt(retryIndex)
                             THEN sleepCount + 1 ELSE sleepCount
            /\ responseList' = << >>
            /\ verdict' = "none"
            /\ pc' = "attempt"
            /\ UNCHANGED <<paLevel, outcome>>
       ELSE /\ pc' = "done"
            /\ paLevel' = FinallyPaLevel
            /\ outcome' = ReturnValue(FALSE, EmptyMap)
            /\ UNCHANGED <<sleepCount, responseList, verdict>>
    /\ UNCHANGED <<callVars, objectVars, radioReady, listening, gcEnabled, numberOfRetries,
                   retryIndex, attemptVars, writeCount, scanCount>>

(* Channel choice and request building, lines 169-175; an error raised by  *)
(* the request builder leaves through the finally clause.                  *)
BeginAttempt ==
    /\ pc = "attempt"
    /\ \E now \in Timestamps :
       \E packet \in { CreateRequestInfoPacket(inverterRadioAddress, dtuRadioAddress, now) } :
       \E txChannelIndex \in 0..(Len(TX_CHANNELS) - 1) :
          LET channel == TX_CHANNELS[txChannelIndex + 1]
          IN  /\ txChannel' = channel
              /\ rxChannelList' = RX_CHANNEL_LISTS[channel]
              /\ currentTime' = now
              /\ IF packet.raised
                 THEN /\ pc' = "done"
                      /\ paLevel' = FinallyPaLevel
                      /\ outcome' = Raised
                      /\ UNCHANGED txPacket
                 ELSE /\ pc' = "send"
                      /\ txPacket' = packet.value
                      /\ UNCHANGED <<paLevel, outcome>>
    /\ UNCHANGED <<callVars, objectVars, radioReady, listening, gcEnabled, numberOfRetries,
                   retryIndex, responseList, verdict, writeCount, scanCount, sleepCount>>

(* __SendRequestAndScanForResponses up to the write, lines 234-242. *)
PrepareSend ==
    /\ pc = "send"
    /\ responseList' = << >>
    /\ gcEnabled' = FALSE
    /\ listening' = FALSE
    /\ pc' = "write"
    /\ UNCHANGED <<callVars, objectVars, radioReady, paLevel, numberOfRetries, retryIndex,
                   attemptVars, verdict, outcome, writeCount, scanCount, sleepCount>>

(* radio.write(txPacket), line 244; the packet and the time it carries are *)
(* not read again.                                                         *)
WriteRequest ==
    /\ pc = "write"
    /\ writeCount' = writeCount + 1
    /\ txPacket' = << >>
    /\ currentTime' = <<0, 0>>
    /\ pc' = "listen"
    /\ UNCHANGED <<callVars, objectVars, radioReady, paLevel, listening, gcEnabled,
                   numberOfRetries, retryIndex, txChannel, rxChannelList,
                   responseList, verdict, outcome, scanCount, sleepCount>>

(* The step to the scan without radio.startListening(): with it C34 fails. *)
StartListeningLeftOut ==
    /\ pc = "listen"
    /\ pc' = "scan"
    /\ UNCHANGED <<callVars, objectVars, radioReady, paLevel, listening, gcEnabled,
                   numberOfRetries, retryIndex, attemptVars, responseList, verdict, outcome,
                   writeCount, scanCount, sleepCount>>

(* radio.startListening(), line 247. *)
StartListening ==
    /\ pc = "listen"
    /\ listening' = TRUE
    /\ pc' = "scan"
    /\ UNCHANGED <<callVars, objectVars, radioReady, paLevel, gcEnabled, numberOfRetries,
                   retryIndex, attemptVars, responseList, verdict, outcome,
                   writeCount, scanCount, sleepCount>>

(* The in-place unescaping of lines 270-271 stopped by an error: the       *)
(* frames before the first one that cannot be unescaped are unescaped, the *)
(* others are as received.  arrivals pairs each raw frame with the result  *)
(* of __UnescapeData on it.                                                *)
PartlyUnescaped(arrivals) ==
    LET k == CHOOSE i \in 1..Len(arrivals) :
                 /\ arrivals[i].unescaped.raised
                 /\ \A j \in 1..(i - 1) : ~arrivals[j].unescaped.raised
    IN  [i \in 1..Len(arrivals) |->
            IF i < k THEN arrivals[i].unescaped.value ELSE arrivals[i].raw]

(* The scan loop, the finally clause and the unescaping of the collected   *)
(* frames, lines 249-273: the radio delivers the frames of arrivals in     *)
(* this order.  An error raised while unescaping leaves QueryInverterInfo  *)
(* through its finally clause.  The arguments of the call end with it.     *)
ScanForResponses ==
    /\ pc = "scan"
    /\ LET menu    == FrameMenu(inverterRadioAddress, inverterNumberOfChannels)
           decoded == { [raw |-> f, unescaped |-> UnescapeData(f)] : f \in menu }
       IN  \E arrivals \in FrameLists(decoded) :
              IF \E i \in 1..Len(arrivals) : arrivals[i].unescaped.raised
              THEN /\ pc' = "done"
                   /\ responseList' = PartlyUnescaped(arrivals)
                   /\ verdict' = "unescapeError"
                   /\ paLevel' = FinallyPaLevel
                   /\ outcome' = Raised
              ELSE /\ pc' = "evaluate"
                   /\ responseList' = [i \in 1..Len(arrivals) |-> arrivals[i].unescaped.value]
                   /\ UNCHANGED <<verdict, paLevel, outcome>>
    /\ gcEnabled' = TRUE
    /\ scanCount' = scanCount + 1
    /\ txChannel' = 0
    /\ rxChannelList' = << >>
    /\ UNCHANGED <<callVars, objectVars, radioReady, listening, numberOfRetries, retryIndex,
                   currentTime, txPacket, writeCount, sleepCount>>

(* The result of one attempt, lines 181-185: "complete" with the readings, *)
(* "incomplete" (response set rejected), "badcrc16" (response set accepted,*)
(* CRC16 of the reassembled message wrong) or "raised" (an error raised by *)
(* the evaluation or the extraction).                                      *)
AttemptResult(frames, address, numberOfChannels) ==
    LET ev == EvaluateInverterInfoResponse(frames, address, numberOfChannels)
    IN  IF ev.raised THEN [verdict |-> "raised", info |-> EmptyMap]
        ELSE IF ~ev.success THEN [verdict |-> "incomplete", info |-> EmptyMap]
        ELSE LET ex == ExtractInverterInfo(ev.data, numberOfChannels)
             IN  IF ex.raised THEN [verdict |-> "raised", info |-> EmptyMap]
                 ELSE IF ~ex.success THEN [verdict |-> "badcrc16", info |-> EmptyMap]
                 ELSE [verdict |-> "complete", info |-> ex.info]

(* Evaluation of the response list and the end of the loop body, lines     *)
(* 181-185: return the readings through the finally clause, leave with an  *)
(* error through it, or go back to the head of the loop.                   *)
EvaluateResponses ==
    /\ pc = "evaluate"
    /\ LET r == AttemptResult(responseList, inverterRadioAddress, inverterNumberOfChannels)
       IN  /\ verdict' = r.verdict
           /\ IF r.verdict = "complete"
              THEN /\ pc' = "done"
                   /\ paLevel' = FinallyPaLevel
                   /\ outcome' = ReturnValue(TRUE, r.info)
                   /\ UNCHANGED retryIndex
              ELSE IF r.verdict = "raised"
              THEN /\ pc' = "done"
                   /\ paLevel' = FinallyPaLevel
                   /\ outcome' = Raised
                   /\ UNCHANGED retryIndex
              ELSE /\ pc' = "loop"
                   /\ retryIndex' = retryIndex + 1
                   /\ UNCHANGED <<paLevel, outcome>>
    /\ UNCHANGED <<callVars, objectVars, radioReady, listening, gcEnabled, numberOfRetries,
                   attemptVars, responseList, writeCount, scanCount, sleepCount>>

Next ==
    \/ InitializeCommunication
    \/ QueryNotInitialized
    \/ QueryStart
    \/ LoopHead
    \/ BeginAttempt
    \/ PrepareSend
    \/ WriteRequest
    \/ StartListening
    \/ ScanForResponses
    \/ EvaluateResponses

Spec == Init /\ [][Next]_vars

(***************************************************************************)
(* __CreateRequestInfoPacket alone, on more addresses and times than a     *)
(* query of the two inverters above meets                                  *)
(***************************************************************************)

(* 4-byte radio addresses, with and without bytes that are escaped; the    *)
(* last two are the addresses of the serial number 112130207321 and of a   *)
(* uuid that ends in the decimal digits 6916342.                           *)
PacketAddresses ==
    { <<130, 52, 86, 120>>, <<132, 2, 8, 116>>, <<246, 84, 50, 16>>,
      <<0, 0, 0, 0>>, <<255, 255, 255, 255>>, <<125, 52, 126, 127>>,
      <<48, 32, 115, 33>>, <<164, 54, 25, 96>> }

(* Values of int(currentTime) as <<hi, lo>>: 0, two times of the year      *)
(* 2025, 0x7D7E7F00, 0x7D7F307F (of the year 2036), 2^32 - 1 and 2^32.     *)
PacketTimes ==
    { <<0, 0>>, <<26887, 61568>>, <<26749, 32383>>, <<32126, 32512>>,
      <<32127, 12415>>, <<65535, 65535>>, <<65536, 0>> }

InitPacket ==
    /\ pc = "packet"
    /\ inverterSerialNumber \in SerialNumbers
    /\ inverterRadioAddress \in PacketAddresses
    /\ dtuRadioAddress \in PacketAddresses
    /\ inverterNumberOfChannels = GetInverterNumberOfChannels(inverterSerialNumber).value
    /\ currentTime \in PacketTimes
    /\ radioReady = FALSE
    /\ paLevel = "MIN"
    /\ listening = FALSE
    /\ gcEnabled = TRUE
    /\ numberOfRetries = 0
    /\ retryIndex = 0
    /\ txChannel = 0
    /\ rxChannelList = << >>
    /\ txPacket = << >>
    /\ responseList = << >>
    /\ verdict = "none"
    /\ outcome = Pending
    /\ writeCount = 0
    /\ scanCount = 0
    /\ sleepCount = 0
    /\ argument = << >>
    /\ result = << >>

(* Lines 640-656: header, payload and the two checksums. *)
AssembleRequest ==
    /\ pc = "packet"
    /\ IF \/ CreatePacketHeader(21, inverterRadioAddress, dtuRadioAddress, 128).raised
          \/ CreateRequestInfoPayload(currentTime).raised
          \/ Len(RequestInfoPacketUnescaped(inverterRadioAddress, dtuRadioAddress,
                                            currentTime)) # 27
       THEN /\ pc' = "packet-raised"
            /\ outcome' = Raised
            /\ UNCHANGED txPacket
       ELSE /\ pc' = "packet-assembled"
            /\ txPacket' = RequestInfoPacketUnescaped(inverterRadioAddress, dtuRadioAddress,
                                                      currentTime)
            /\ UNCHANGED outcome
    /\ UNCHANGED <<callVars, objectVars, radioReady, paLevel, listening, gcEnabled,
                   numberOfRetries, retryIndex, txChannel, rxChannelList, currentTime,
                   responseList, verdict, writeCount, scanCount, sleepCount>>

(* Lines 658-663: the escaping and the size check. *)
EscapeRequest ==
    /\ pc = "packet-assembled"
    /\ LET packet == CreateRequestInfoPacket(inverterRadioAddress, dtuRadioAddress,
                                             currentTime)
       IN  IF packet.raised
           THEN /\ pc' = "packet-raised"
                /\ outcome' = Raised
                /\ UNCHANGED txPacket
           ELSE /\ pc' = "packet-escaped"
                /\ txPacket' = packet.value
                /\ UNCHANGED outcome
    /\ UNCHANGED <<callVars, objectVars, radioReady, paLevel, listening, gcEnabled,
                   numberOfRetries, retryIndex, txChannel, rxChannelList, currentTime,
                   responseList, verdict, writeCount, scanCount, sleepCount>>

NextPacket ==
    \/ AssembleRequest
    \/ EscapeRequest

SpecPacket == InitPacket /\ [][NextPacket]_vars

(***************************************************************************)
(* Properties                                                              *)
(***************************************************************************)

(* The failure result of QueryInverterInfo, line 190. *)
Failure == ReturnValue(FALSE, EmptyMap)

(* A query that got past the radio check of lines 152-153 has ended. *)
QueryEnded == pc = "done" /\ radioReady

(* The attempt just evaluated goes on to a retry or ends the query with    *)
(* the failure result.                                                     *)
RetriedOrFailed == pc = "loop" \/ (pc = "done" /\ outcome = Failure)

(* The conditions of a complete response set, frame by frame: the count,   *)
(* the frame number byte, both address fields and the CRC8 in the last     *)
(* byte.                                                                   *)
WellFormedFrame(f, address) ==
    /\ Len(f) >= 10
    /\ SubSeq(f, 2, 5) = address
    /\ SubSeq(f, 6, 9) = address
    /\ f[Len(f)] = CalculateCrc8(f, Len(f) - 1)

CompleteResponseSet(frames, address, numberOfChannels) ==
    /\ Len(frames) = numberOfChannels + 1
    /\ \A i \in 1..Len(frames) :
          /\ Len(frames[i]) >= 10
          /\ frames[i][10] = IF i = numberOfChannels + 1 THEN i + 128 ELSE i
          /\ WellFormedFrame(frames[i], address)

(* The bytes [10:-1] of the frames, one after the other. *)
RECURSIVE Reassembled(_)
Reassembled(frames) ==
    IF frames = << >> THEN << >>
    ELSE SubSeq(Head(frames), 11, Len(Head(frames)) - 1) \o Reassembled(Tail(frames))

(* The message ends in the big-endian CRC16 of the bytes before it. *)
MessageCrcValid(message) ==
    /\ Len(message) >= 2
    /\ 256 * message[Len(message) - 1] + message[Len(message)]
          = CalculateCrc16(SubSeq(message, 1, Len(message) - 2), Len(message) - 2)

(* A frame long enough to have both address fields, one of which is not    *)
(* the address of the inverter.                                            *)
HasForeignAddress(f) ==
    /\ Len(f) >= 10
    /\ (SubSeq(f, 2, 5) # inverterRadioAddress \/ SubSeq(f, 6, 9) # inverterRadioAddress)

NotForeign(f) == ~HasForeignAddress(f)

(* C1 as stated: a query of an initialised radio never raises; it returns  *)
(* (True, readings) or (False, {}), whatever frames the radio delivers.    *)
(* The model refutes it: an error of __UnescapeData or the IndexError of   *)
(* response[9] leaves QueryInverterInfo.                                   *)
C1_NeverRaises ==
    QueryEnded =>
        /\ outcome.kind = "returned"
        /\ (outcome.success \/ outcome.info = EmptyMap)

(* C2: while a query is between the loop head and the end of an attempt,   *)
(* and so whenever a request is written, the power level is MAX; once the  *)
(* query has ended - by success, by failure or by an error - it is MIN.    *)
C2_PowerLevel ==
    /\ pc \in {"loop", "attempt", "send", "write", "listen", "scan", "evaluate"}
          => paLevel = "MAX"
    /\ pc = "done" => paLevel = "MIN"
    /\ writeCount > 0 /\ pc # "done" => paLevel = "MAX"

(* A query that wrote two requests has ended with an error, power at MIN. *)
C2_Witness ==
    /\ QueryEnded
    /\ outcome.kind = "raised"
    /\ writeCount = 2
    /\ paLevel = "MIN"

(* C3: an evaluated response list was accepted (readings returned, or only *)
(* the CRC16 left to fail) exactly if it is a complete response set;       *)
(* readings come from a complete set only; and a list that was not found   *)
(* Incomplete, with a retry or the failure result after it, is a complete  *)
(* set or has a frame that is not well-formed: a list of well-formed       *)
(* frames with one missing, doubled or out of order is Incomplete.         *)
C3_AcceptedIffCompleteSet ==
    verdict # "none" =>
        LET complete == CompleteResponseSet(responseList, inverterRadioAddress,
                                            inverterNumberOfChannels)
        IN  /\ (verdict \in {"complete", "badcrc16"}) <=> complete
            /\ outcome.success => complete
            /\ \/ verdict = "incomplete" /\ RetriedOrFailed
               \/ complete
               \/ \E i \in 1..Len(responseList) :
                     ~WellFormedFrame(responseList[i], inverterRadioAddress)

(* The right number of well-formed frames in the wrong order or doubled:   *)
(* Incomplete, and the loop goes on.                                       *)
C3_Witness ==
    /\ pc = "loop"
    /\ verdict = "incomplete"
    /\ Len(responseList) = inverterNumberOfChannels + 1
    /\ \A i \in 1..Len(responseList) :
          WellFormedFrame(responseList[i], inverterRadioAddress)

(* C4: readings are returned only if the reassembled message ends in the   *)
(* CRC16 of the bytes before it; a complete response set whose message     *)
(* does not is not a success: a retry or the failure result follows.       *)
C4_ReadingsNeedCrc16 ==
    /\ outcome.success => MessageCrcValid(Reassembled(responseList))
    /\ (/\ verdict # "none"
        /\ CompleteResponseSet(responseList, inverterRadioAddress,
                               inverterNumberOfChannels)
        /\ ~MessageCrcValid(Reassembled(responseList)))
          => verdict = "badcrc16" /\ ~outcome.success /\ RetriedOrFailed

(* A complete set of full frames with a wrong CRC16, followed by a retry. *)
C4_Witness ==
    /\ pc = "loop"
    /\ verdict = "badcrc16"
    /\ Len(Reassembled(responseList)) = Len(InverterMessage(InverterData(inverterNumberOfChannels)))

(* C5: a query with numberOfRetries = n writes at most n requests; the     *)
(* failure result comes after exactly n attempts; a Complete attempt ends  *)
(* the query with success, the request of that attempt being the last one  *)
(* written; with n = 0 nothing is written and the failure result returned. *)
C5_AtMostNAttempts ==
    /\ writeCount <= numberOfRetries
    /\ scanCount <= numberOfRetries
    /\ (QueryEnded /\ outcome = Failure)
          => writeCount = numberOfRetries /\ scanCount = numberOfRetries
    /\ verdict = "complete"
          => /\ pc = "done"
             /\ outcome.kind = "returned" /\ outcome.success
             /\ writeCount = retryIndex + 1
    /\ (QueryEnded /\ numberOfRetries = 0) => writeCount = 0 /\ outcome = Failure

(* Every attempt of the longest query was used up without a result. *)
C5_Witness ==
    /\ QueryEnded
    /\ outcome = Failure
    /\ numberOfRetries = MaxRetries
    /\ writeCount = MaxRetries
    /\ verdict \in {"incomplete", "badcrc16"}

(* C6: in attempt k (retryIndex = k - 1) the request is written once, and  *)
(* before the scan: k - 1 requests written before the write, k after it,   *)
(* the scan of the attempt counted only after the write.  Attempt k begins *)
(* after k - 1 scans, evaluations and waits: no wait before the first.     *)
C6_WriteScanBackoffOrder ==
    /\ pc \in {"attempt", "send", "write"}
          => writeCount = retryIndex /\ scanCount = retryIndex /\ sleepCount = retryIndex
    /\ pc \in {"listen", "scan"}
          => writeCount = retryIndex + 1 /\ scanCount = retryIndex /\ sleepCount = retryIndex
    /\ pc = "scan" => listening
    /\ pc = "evaluate"
          => writeCount = retryIndex + 1 /\ scanCount = retryIndex + 1 /\ sleepCount = retryIndex
    /\ pc = "loop"
          => /\ writeCount = retryIndex /\ scanCount = retryIndex
             /\ sleepCount = Max(retryIndex - 1, 0)
             /\ retryIndex > 0 => verdict \in {"incomplete", "badcrc16"}

(* The scan of the second attempt: two requests written, one wait. *)
C6_Witness ==
    /\ pc = "scan"
    /\ retryIndex = 1
    /\ writeCount = 2
    /\ scanCount = 1
    /\ sleepCount = 1

(* C7 as stated: a frame with a foreign address does not count, so a list  *)
(* that holds such frames and, besides them, a complete response set with  *)
(* a valid CRC16 is Complete.  The model refutes it.                       *)
C7_ForeignFrameDiscarded ==
    (/\ verdict \notin {"none", "unescapeError"}
     /\ \E i \in 1..Len(responseList) : HasForeignAddress(responseList[i])
     /\ CompleteResponseSet(SelectSeq(responseList, NotForeign), inverterRadioAddress,
                            inverterNumberOfChannels)
     /\ MessageCrcValid(Reassembled(SelectSeq(responseList, NotForeign))))
        => verdict = "complete"

(* C7 as the code has it: a frame with a foreign address stays in the      *)
(* response list, and a list that holds one is never accepted and gives no *)
(* readings.                                                               *)
C7_ForeignFrameFailsAttempt ==
    (/\ verdict # "none"
     /\ \E i \in 1..Len(responseList) : HasForeignAddress(responseList[i]))
        => /\ verdict \notin {"complete", "badcrc16"}
           /\ ~outcome.success

(* All frames of the inverter in order and a foreign frame: Incomplete. *)
C7_Witness ==
    /\ verdict = "incomplete"
    /\ \E i \in 1..Len(responseList) : HasForeignAddress(responseList[i])
    /\ CompleteResponseSet(SelectSeq(responseList, NotForeign), inverterRadioAddress,
                           inverterNumberOfChannels)
    /\ MessageCrcValid(Reassembled(SelectSeq(responseList, NotForeign)))

(* C8 as stated: an evaluated list with a frame of fewer than 11 bytes is  *)
(* rejected as Incomplete: the frame is not accepted into a response set   *)
(* and no error comes from reading its header.  The model refutes it.      *)
C8_ShortFramesRejected ==
    (/\ verdict \notin {"none", "unescapeError"}
     /\ \E i \in 1..Len(responseList) : Len(responseList[i]) < 11)
        => verdict = "incomplete"

(* C9: the channels of an attempt: the transmit channel is one of 3, 23,   *)
(* 40, 61, 75; the receive list has three channels of that set, pairwise   *)
(* different, none of them the transmit channel.                           *)
C9_ChannelChoice ==
    pc \in {"send", "write", "listen", "scan"} =>
        /\ txChannel \in {3, 23, 40, 61, 75}
        /\ Len(rxChannelList) = 3
        /\ \A i \in 1..Len(rxChannelList) :
              /\ rxChannelList[i] \in {3, 23, 40, 61, 75}
              /\ rxChannelList[i] # txChannel
              /\ \A j \in 1..Len(rxChannelList) :
                    i # j => rxChannelList[i] # rxChannelList[j]

(* Listening on the list of the last transmit channel. *)
C9_Witness ==
    /\ pc = "scan"
    /\ txChannel = 75
    /\ rxChannelList = <<3, 23, 40>>

(* The layout of a request for receiver, sender and time t = <<hi, lo>>. *)
RequestLayout(p, receiver, sender, t) ==
    /\ Len(p) = 27
    /\ p[1] = 21
    /\ SubSeq(p, 2, 5) = receiver
    /\ SubSeq(p, 6, 9) = sender
    /\ p[10] = 128
    /\ p[11] = 11
    /\ p[12] = 0
    /\ p[13] = t[1] \div 256 /\ p[14] = t[1] % 256
    /\ p[15] = t[2] \div 256 /\ p[16] = t[2] % 256
    /\ \A i \in (17..24) \ {20} : p[i] = 0
    /\ p[20] = 5
    /\ 256 * p[25] + p[26] = CalculateCrc16(SubSeq(p, 11, 24), 14)
    /\ p[27] = CalculateCrc8(p, 26)

(* C10: the request before the escaping has the 27-byte layout, and the    *)
(* escaped request unescapes to a frame of that layout that passes the     *)
(* CRC8 check of received frames.                                          *)
C10_RequestLayout ==
    /\ pc = "packet-assembled"
          => RequestLayout(txPacket, inverterRadioAddress, dtuRadioAddress, currentTime)
    /\ pc = "packet-escaped"
          => /\ ~UnescapeData(txPacket).raised
             /\ RequestLayout(UnescapeData(txPacket).value, inverterRadioAddress,
                              dtuRadioAddress, currentTime)
             /\ CheckChecksum(UnescapeData(txPacket).value)

(* An escaped request that is longer than the 27 bytes it stands for. *)
C10_Witness ==
    /\ pc = "packet-escaped"
    /\ Len(txPacket) > 27
    /\ CheckChecksum(UnescapeData(txPacket).value)

(* C11 as stated: for 4-byte addresses and a time below 2^32 the building  *)
(* of the request never raises: the escaped request has at most 32 bytes.  *)
(* The model refutes it: each byte 0x7D, 0x7E, 0x7F of the 27 adds one.    *)
C11_SizeGuardsNeverTrigger ==
    pc = "packet-raised" => currentTime[1] >= 65536

(***************************************************************************)
(* __EscapeData and __UnescapeData alone, on byte sequences                *)
(***************************************************************************)

(* No object is needed for a static method, and no query is running. *)
NoObject ==
    /\ inverterSerialNumber = << >>
    /\ dtuRadioAddress = << >>
    /\ inverterRadioAddress = << >>
    /\ inverterNumberOfChannels = 0

NoQuery ==
    /\ radioReady = FALSE
    /\ paLevel = "MIN"
    /\ listening = FALSE
    /\ gcEnabled = TRUE
    /\ numberOfRetries = 0
    /\ retryIndex = 0
    /\ txChannel = 0
    /\ rxChannelList = << >>
    /\ currentTime = <<0, 0>>
    /\ txPacket = << >>
    /\ responseList = << >>
    /\ verdict = "none"
    /\ outcome = Pending
    /\ writeCount = 0
    /\ scanCount = 0
    /\ sleepCount = 0

(* Longest byte sequence handed to the two functions. *)
MaxCodecLen == 4

(* The bytes with a meaning for the escaping, and one without. *)
CodecBytes == {0, 93, 94, 95, 125, 126, 127}

CodecInputs == UNION { [1..k -> CodecBytes] : k \in 0..MaxCodecLen }

InitCodec ==
    /\ pc = "codec"
    /\ argument \in CodecInputs
    /\ result = << >>
    /\ NoObject
    /\ NoQuery

(* __EscapeData(argument). *)
CallEscapeData ==
    /\ pc = "codec"
    /\ result' = Returned(EscapeData(argument))
    /\ pc' = "escaped"
    /\ UNCHANGED <<argument, objectVars, queryVars>>

(* __UnescapeData on what __EscapeData returned. *)
CallUnescapeOfEscaped ==
    /\ pc = "escaped"
    /\ result' = UnescapeData(result.value)
    /\ pc' = "roundtrip"
    /\ UNCHANGED <<argument, objectVars, queryVars>>

(* __UnescapeData(argument). *)
CallUnescapeData ==
    /\ pc = "codec"
    /\ result' = UnescapeData(argument)
    /\ pc' = "unescaped"
    /\ UNCHANGED <<argument, objectVars, queryVars>>

NextCodec ==
    \/ CallEscapeData
    \/ CallUnescapeOfEscaped
    \/ CallUnescapeData

SpecCodec == InitCodec /\ [][NextCodec]_vars

(* C12: unescaping what the escaping of x returned gives x back, and does  *)
(* not raise.                                                              *)
C12_RoundTrip ==
    pc = "roundtrip" => ~result.raised /\ result.value = argument

(* The round trip of 7D 5D 7F 7E. *)
C12_Witness ==
    /\ pc = "roundtrip"
    /\ argument = <<125, 93, 127, 126>>
    /\ result = Returned(argument)

(* The bytes that are escaped. *)
IsControlByte(b) == b \in {125, 126, 127}

(* Where the byte i of x starts in the escaped x: one place later for each *)
(* control byte before it.                                                 *)
EscapedIndex(x, i) == i + Cardinality({j \in 1..(i - 1) : IsControlByte(x[j])})

(* C13: the escaped x is as long as x plus one for each control byte of x; *)
(* it has no byte 0x7E or 0x7F; each 0x7D in it is followed by 0x5D, 0x5E  *)
(* or 0x5F; the other bytes of x are in it unchanged, each at its place in *)
(* the order, and a 0x7D stands where a control byte of x was.             *)
C13_EscapedForm ==
    pc = "escaped" =>
        LET x == argument
            e == result.value
        IN  /\ Len(e) = Len(x) + Cardinality({i \in 1..Len(x) : IsControlByte(x[i])})
            /\ Len(e) >= Len(x)
            /\ \A j \in 1..Len(e) :
                  /\ e[j] \notin {126, 127}
                  /\ e[j] = 125 => j < Len(e) /\ e[j + 1] \in {93, 94, 95}
            /\ \A i \in 1..Len(x) :
                  /\ EscapedIndex(x, i) <= Len(e)
                  /\ e[EscapedIndex(x, i)] = IF IsControlByte(x[i]) THEN 125 ELSE x[i]

(* 00 7F 5D 7D escaped: six bytes. *)
C13_Witness ==
    /\ pc = "escaped"
    /\ argument = <<0, 127, 93, 125>>
    /\ result.value = <<0, 125, 95, 93, 125, 93>>

(* A byte 0x7D of x is the last byte or is followed by a byte other than   *)
(* 0x5D, 0x5E, 0x5F.                                                       *)
HasInvalidEscape(x) ==
    \E i \in 1..Len(x) :
        /\ x[i] = 125
        /\ (i = Len(x) \/ x[i + 1] \notin {93, 94, 95})

(* C14: __UnescapeData raises, returning nothing, exactly for the inputs   *)
(* with a 0x7D that is last or followed by a byte other than 0x5D, 0x5E,   *)
(* 0x5F; for every other input it returns a value.                         *)
C14_UnescapeErrors ==
    pc = "unescaped" =>
        /\ result.raised <=> HasInvalidEscape(argument)
        /\ result.raised => result.value = << >>

(* A valid pair and then a 0x7D at the end: an error. *)
C14_Witness ==
    /\ pc = "unescaped"
    /\ argument = <<125, 94, 0, 125>>
    /\ result.raised

(***************************************************************************)
(* The constructor on any string, and what a query does with the object:   *)
(* the packet header of a request and the extraction of the readings       *)
(***************************************************************************)

(* Strings handed to the constructor: serial numbers of the three inverter *)
(* families, unknown prefixes, hex tails that are short, long, odd or no   *)
(* hex, and strings shorter than the prefix.                               *)
SerialCandidates ==
    { <<"1", "1", "2", "1", "8", "2", "3", "4", "5", "6", "7", "8">>,
      <<"1", "0", "2", "2", "8", "2", "3", "4", "5", "6", "7", "8">>,
      <<"1", "1", "4", "1", "8", "4", "0", "2", "0", "8", "7", "4">>,
      <<"1", "1", "6", "1", "8", "4", "0", "2", "0", "8", "7", "4">>,
      <<"1", "0", "6", "4", "1", "2", "3", "4", "5", "6", "7", "8">>,
      <<"1", "1", "2", "3", "8", "2", "3", "4", "5", "6", "7", "8">>,
      <<"1", "2", "3", "4", "5", "6", "7", "8", "9", "0", "1", "2">>,
      <<"1", "2", "1", "1", "8", "2", "3", "4", "5", "6", "7", "8">>,
      <<"1", "1", "2", "1", "8", "2", "3", "4">>,
      <<"1", "1", "2", "1">>,
      <<"1", "1", "6", "1", "8", "2", "3", "4", "5", "6", "7", "8", "9", "A">>,
      <<"1", "1", "2", "1", "8", "2", "3", "4", "5", "6", "7">>,
      <<"1", "1", "2", "1", "Z", "2", "3", "4", "5", "6", "7", "8">>,
      <<"1", "1", "2">>,
      <<>> }

(* Data bytes below 128 (the 4-byte fields stay below 2^31). *)
SampleData(length, seed) == [i \in 1..length |-> (i * seed + 7) % 128]

DataSeeds == 1..8

(* A message with its last byte changed: the CRC16 does not match. *)
WithWrongCrc(message) ==
    [message EXCEPT ![Len(message)] = (message[Len(message)] + 1) % 256]

(* Reassembled messages of the three inverter families, 30, 42 and 62 data *)
(* bytes, with a right and with a wrong CRC16.                             *)
SampleMessages ==
    UNION { { InverterMessage(SampleData(length, seed)),
              WithWrongCrc(InverterMessage(SampleData(length, seed))) } :
            length \in {30, 42, 62}, seed \in DataSeeds }

InitObject ==
    /\ pc = "new"
    /\ argument \in SerialCandidates
    /\ result = << >>
    /\ NoObject
    /\ NoQuery

(* __init__, lines 106-112: an error of __GetInverterRadioAddress or of    *)
(* __GetInverterNumberOfChannels leaves the constructor.                   *)
ConstructObject ==
    /\ pc = "new"
    /\ \E u \in UuidValues :
          LET address  == GetInverterRadioAddress(argument)
              channels == GetInverterNumberOfChannels(argument)
          IN  IF address.raised \/ channels.raised
              THEN /\ pc' = "construct-raised"
                   /\ result' = RaisedValue
                   /\ UNCHANGED objectVars
              ELSE /\ pc' = "constructed"
                   /\ inverterSerialNumber' = argument
                   /\ dtuRadioAddress' = GenerateDtuRadioAddress(u)
                   /\ inverterRadioAddress' = address.value
                   /\ inverterNumberOfChannels' = channels.value
                   /\ UNCHANGED result
    /\ UNCHANGED <<argument, queryVars>>

(* The header of a request for the object, line 640. *)
CallCreatePacketHeader ==
    /\ pc = "constructed"
    /\ result' = CreatePacketHeader(21, inverterRadioAddress, dtuRadioAddress, 128)
    /\ pc' = IF result'.raised THEN "header-raised" ELSE "header"
    /\ UNCHANGED <<argument, objectVars, queryVars>>

(* The extraction of line 183 for the object, on a reassembled message. *)
CallExtractInverterInfo ==
    /\ pc = "constructed"
    /\ \E message \in SampleMessages :
          result' = ExtractInverterInfo(message, inverterNumberOfChannels)
    /\ pc' = "extracted"
    /\ UNCHANGED <<argument, objectVars, queryVars>>

NextObject ==
    \/ ConstructObject
    \/ CallCreatePacketHeader
    \/ CallExtractInverterInfo

SpecObject == InitObject /\ [][NextObject]_vars

(* C15 as stated: the extraction for an inverter with four channels never  *)
(* returns a success with readings.  The model refutes it: the code has a  *)
(* branch for four channels that returns True and a map.                   *)
C15_FourChannelsFail ==
    (pc = "extracted" /\ inverterNumberOfChannels = 4)
        => (result.raised \/ ~result.success)

(* The first four characters are 10 or 11 and then one of 21, 22, 24, 41,  *)
(* 42, 44, 61, 62, 64.                                                     *)
HasKnownPrefix(s) ==
    /\ Len(s) >= 4
    /\ s[1] = "1"
    /\ s[2] \in {"0", "1"}
    /\ s[3] \in {"2", "4", "6"}
    /\ s[4] \in {"1", "2", "4"}

(* __init__ has returned an object. *)
ObjectExists == pc \in {"constructed", "header", "header-raised", "extracted"}

C17_AddressesHaveFourBytes ==
    ObjectExists =>
        /\ Len(inverterRadioAddress) = 4
        /\ Len(dtuRadioAddress) = 4
        /\ pc # "header-raised"

(***************************************************************************)
(* SmlDecoder.py: the decoder of the Smart Message Language frames the     *)
(* electricity meter sends.                                                *)
(***************************************************************************)

__ESCAPE_SEQUENCE == <<27, 27, 27, 27>>

__SML_START == <<1, 1, 1, 1>>

__DATA_TYPE_STR == 0

__DATA_TYPE_BOOL == 4

__DATA_TYPE_INT == 5

__DATA_TYPE_UINT == 6

__DATA_TYPE_LIST == 7

(* Python's data[a:b] for any integers a and b: a negative bound counts    *)
(* from the end, and both bounds are clamped to the sequence.              *)
PySliceAny(data, a, b) ==
    LET n == Len(data)
        lo == IF a < 0 THEN Max(n + a, 0) ELSE Min(a, n)
        hi == IF b < 0 THEN Max(n + b, 0) ELSE Min(b, n)
    IN  SubSeq(data, lo + 1, hi)

(* Whether Python's data[i] exists: -len <= i < len. *)
PyIndexExists(data, i) == (i < Len(data)) /\ (i >= 0 - Len(data))

(* Python's data[i] where it exists. *)
PyIndex(data, i) == IF i < 0 THEN data[Len(data) + i + 1] ELSE data[i + 1]

(* int.from_bytes(data, byteorder="little", signed=False). *)
RECURSIVE IntFromBytesLittle(_)
IntFromBytesLittle(data) ==
    IF Len(data) = 0 THEN 0
    ELSE Head(data) + 256 * IntFromBytesLittle(Tail(data))

__CRC16_X25_TABLE ==
    << 0, 4489, 8978, 12955, 17956, 22445, 25910, 29887,
       35912, 40385, 44890, 48851, 51820, 56293, 59774, 63735,
       4225, 264, 13203, 8730, 22181, 18220, 30135, 25662,
       40137, 36160, 49115, 44626, 56045, 52068, 63999, 59510,
       8450, 12427, 528, 5017, 26406, 30383, 17460, 21949,
       44362, 48323, 36440, 40913, 60270, 64231, 51324, 55797,
       12675, 8202, 4753, 792, 30631, 26158, 21685, 17724,
       48587, 44098, 40665, 36688, 64495, 60006, 55549, 51572,
       16900, 21389, 24854, 28831, 1056, 5545, 10034, 14011,
       52812, 57285, 60766, 64727, 34920, 39393, 43898, 47859,
       21125, 17164, 29079, 24606, 5281, 1320, 14259, 9786,
       57037, 53060, 64991, 60502, 39145, 35168, 48123, 43634,
       25350, 29327, 16404, 20893, 9506, 13483, 1584, 6073,
       61262, 65223, 52316, 56789, 43370, 47331, 35448, 39921,
       29575, 25102, 20629, 16668, 13731, 9258, 5809, 1848,
       65487, 60998, 56541, 52564, 47595, 43106, 39673, 35696,
       33800, 38273, 42778, 46739, 49708, 54181, 57662, 61623,
       2112, 6601, 11090, 15067, 20068, 24557, 28022, 31999,
       38025, 34048, 47003, 42514, 53933, 49956, 61887, 57398,
       6337, 2376, 15315, 10842, 24293, 20332, 32247, 27774,
       42250, 46211, 34328, 38801, 58158, 62119, 49212, 53685,
       10562, 14539, 2640, 7129, 28518, 32495, 19572, 24061,
       46475, 41986, 38553, 34576, 62383, 57894, 53437, 49460,
       14787, 10314, 6865, 2904, 32743, 28270, 23797, 19836,
       50700, 55173, 58654, 62615, 32808, 37281, 41786, 45747,
       19012, 23501, 26966, 30943, 3168, 7657, 12146, 16123,
       54925, 50948, 62879, 58390, 37033, 33056, 46011, 41522,
       23237, 19276, 31191, 26718, 7393, 3432, 16371, 11898,
       59150, 63111, 50204, 54677, 41258, 45219, 33336, 37809,
       27462, 31439, 18516, 23005, 11618, 15595, 3696, 8185,
       63375, 58886, 54429, 50452, 45483, 40994, 37561, 33584,
       31687, 27214, 22741, 18780, 15843, 11370, 7921, 3960 >>

(* The for loop of __CalculateSmlCrc16 from index idx.  A long run of      *)
(* iterations is evaluated as its first half followed by its second half,  *)
(* which keeps the evaluation of a frame of some hundred bytes shallow.    *)
RECURSIVE SmlCrc16Loop(_, _, _, _)
SmlCrc16Loop(data, dataLen, idx, crcsum) ==
    IF crcsum >= 0 /\ idx >= dataLen THEN crcsum
    ELSE IF dataLen - idx > 16
    THEN LET half == idx + ((dataLen - idx) \div 2)
         IN  SmlCrc16Loop(data, dataLen, half, SmlCrc16Loop(data, half, idx, crcsum))
    ELSE SmlCrc16Loop(data, dataLen, idx + 1,
             BitXor(__CRC16_X25_TABLE[(BitXor(data[idx + 1], crcsum) % 256) + 1],
                    (crcsum \div 256) % 256))

(* The checksum without the final crcsum ^= 0xffff of line 263: with it    *)
(* C30 fails.                                                              *)
SmlCrc16WithoutFinalXor(data, dataLen) ==
    SmlCrc16Loop(data, dataLen, 0, 65535)

__CalculateSmlCrc16(data, dataLen) ==
    BitXor(SmlCrc16Loop(data, dataLen, 0, 65535), 65535)

(* How a call of the decoder ends: an exception with its kind, or a value. *)
SmlRaised(error) == [raised |-> TRUE, error |-> error, value |-> << >>]

SmlReturned(v) == [raised |-> FALSE, error |-> "", value |-> v]

(* The low nibbles collected by __DecodeTypeLengthField, first one most    *)
(* significant, as the integer dataLen holds.                              *)
RECURSIVE IntFromNibbles(_)
IntFromNibbles(nibbles) ==
    IF Len(nibbles) = 0 THEN 0
    ELSE 16 * IntFromNibbles(SubSeq(nibbles, 1, Len(nibbles) - 1))
         + nibbles[Len(nibbles)]

(* The while loop of __DecodeTypeLengthField, lines 54-58.  Its condition  *)
(* tests tlField, the first byte, which the body never assigns: once       *)
(* entered the loop goes on until data[pos] is past the end of the data,   *)
(* which is Python's IndexError.                                           *)
RECURSIVE TypeLengthLoop(_, _, _, _, _, _)
TypeLengthLoop(data, tlField, pos, tlFieldSize, dataType, nibbles) ==
    IF tlField < 128
    THEN SmlReturned([tlFieldSize |-> tlFieldSize, dataType |-> dataType,
                      dataLen |-> IntFromNibbles(nibbles)])
    ELSE IF ~PyIndexExists(data, pos + 1) THEN SmlRaised("IndexError")
    ELSE TypeLengthLoop(data, tlField, pos + 1, tlFieldSize + 1, dataType,
                        Append(nibbles, PyIndex(data, pos + 1) % 16))

__DecodeTypeLengthField(data, pos) ==
    IF ~PyIndexExists(data, pos) THEN SmlRaised("IndexError")
    ELSE LET tlField == PyIndex(data, pos)
         IN  TypeLengthLoop(data, tlField, pos, 1, (tlField \div 16) % 8,
                            <<tlField % 16>>)

(* The values the decoder builds.  An integer is kept as its sign and the  *)
(* big-endian bytes of its magnitude without leading zeros, which is what  *)
(* int.from_bytes makes of the bytes whatever their number.                *)
SmlValue(type, neg, bytes, items) ==
    [type |-> type, neg |-> neg, bytes |-> bytes, items |-> items]

RECURSIVE StripLeadingZeros(_)
StripLeadingZeros(bytes) ==
    IF Len(bytes) = 0 \/ Head(bytes) # 0 THEN bytes
    ELSE StripLeadingZeros(Tail(bytes))

(* 2^(8 * len) minus the number the bytes hold, bytewise. *)
RECURSIVE TwosComplement(_, _)
TwosComplement(bytes, carry) ==
    IF Len(bytes) = 0 THEN << >>
    ELSE LET last == (255 - bytes[Len(bytes)]) + carry
         IN  Append(TwosComplement(SubSeq(bytes, 1, Len(bytes) - 1), last \div 256),
                    last % 256)

(* int.from_bytes(bytes, byteorder="big", signed=signed). *)
IntValue(bytes, signed) ==
    IF signed /\ Len(bytes) > 0 /\ Head(bytes) >= 128
    THEN SmlValue("int", TRUE, StripLeadingZeros(TwosComplement(bytes, 1)), << >>)
    ELSE SmlValue("int", FALSE, StripLeadingZeros(bytes), << >>)

(* What __DecodeValue returns: value, valueEndPos, endOfMsg. *)
ValueResult(value, valueEndPos, endOfMsg) ==
    SmlReturned([value |-> value, valueEndPos |-> valueEndPos, endOfMsg |-> endOfMsg])

RECURSIVE __DecodeValue(_, _)
RECURSIVE DecodeListItems(_, _, _, _, _, _)

(* The for loop of __DecodeValue over the children of a list, lines 97-102,*)
(* with remaining iterations still to run.                                 *)
DecodeListItems(data, remaining, valueStartPos, valueEndPos, endOfMsg, value) ==
    IF remaining = 0 THEN ValueResult(SmlValue("list", FALSE, << >>, value), valueEndPos, endOfMsg)
    ELSE LET item == __DecodeValue(data, valueStartPos)
         IN  IF item.raised THEN item
             ELSE DecodeListItems(data, remaining - 1,
                      item.value.valueEndPos, item.value.valueEndPos,
                      item.value.endOfMsg,
                      IF ~item.value.endOfMsg
                      THEN Append(value, item.value.value) ELSE value)

__DecodeValue(data, pos) ==
    LET tlf == __DecodeTypeLengthField(data, pos)
    IN  IF tlf.raised THEN tlf
        ELSE LET tlFieldSize == tlf.value.tlFieldSize
                 dataType == tlf.value.dataType
                 dataLen == tlf.value.dataLen
                 valueStartPos == pos + tlFieldSize
                 valueEndPos == pos + dataLen
             IN  IF PyIndex(data, pos) = 0
                 THEN ValueResult(IntValue(<<0>>, FALSE), pos + 1, TRUE)
                 ELSE IF dataType = __DATA_TYPE_STR /\ dataLen >= 1
                 THEN ValueResult(SmlValue("bytes", FALSE,
                                      PySliceAny(data, valueStartPos, valueEndPos), << >>),
                                  valueEndPos, FALSE)
                 ELSE IF dataType = __DATA_TYPE_BOOL /\ dataLen = 2
                 THEN IF ~PyIndexExists(data, valueStartPos) THEN SmlRaised("IndexError")
                      ELSE ValueResult(SmlValue("bool", FALSE,
                                           <<IF PyIndex(data, valueStartPos) # 0 THEN 1 ELSE 0>>,
                                           << >>),
                                       valueEndPos, FALSE)
                 ELSE IF dataType = __DATA_TYPE_INT /\ dataLen >= 2 /\ dataLen <= 9
                 THEN ValueResult(IntValue(PySliceAny(data, valueStartPos, valueEndPos), TRUE),
                                  valueEndPos, FALSE)
                 ELSE IF dataType = __DATA_TYPE_UINT /\ dataLen >= 2 /\ dataLen <= 9
                 THEN ValueResult(IntValue(PySliceAny(data, valueStartPos, valueEndPos), FALSE),
                                  valueEndPos, FALSE)
                 ELSE IF dataType = __DATA_TYPE_LIST
                 THEN DecodeListItems(data, dataLen, valueStartPos, valueEndPos, FALSE, << >>)
                 ELSE SmlRaised("Unknown data type")

(* A variant of SmlChecksumMatches that accepts every checksum: with it    *)
(* C18 fails.                                                              *)
SmlChecksumUnchecked(data) == TRUE

(* Whether the last two bytes, read little-endian, are the checksum of the *)
(* bytes before them, lines 156-159.                                       *)
SmlChecksumMatches(data) ==
    LET count == Len(data)
    IN  IntFromBytesLittle(PySliceAny(data, count - 2, count))
            = __CalculateSmlCrc16(data, Len(data) - 2)

(* The while loop of DecodeSmlMessages over the message body, lines 164-170.*)
RECURSIVE DecodeMessageLoop(_, _, _, _)
DecodeMessageLoop(data, pos, lastMsgBodyIndex, messageList) ==
    IF ~(pos < lastMsgBodyIndex) THEN SmlReturned(messageList)
    ELSE LET message == __DecodeValue(data, pos)
         IN  IF message.raised THEN message
             ELSE IF ~message.value.endOfMsg THEN SmlRaised("missing end of message")
             ELSE DecodeMessageLoop(data, message.value.valueEndPos, lastMsgBodyIndex,
                                    Append(messageList, message.value.value))

DecodeSmlMessages(data) ==
    LET count == Len(data)
    IN  IF PySliceAny(data, 0, 4) # __ESCAPE_SEQUENCE
        THEN SmlRaised("missing escape sequence at position 0")
        ELSE IF PySliceAny(data, 4, 8) # __SML_START
        THEN SmlRaised("missing SML start sequence at position 4")
        ELSE IF PySliceAny(data, count - 8, count - 4) # __ESCAPE_SEQUENCE
        THEN SmlRaised("missing second escape sequence")
        ELSE IF ~PyIndexExists(data, count - 4) THEN SmlRaised("IndexError")
        ELSE IF PyIndex(data, count - 4) # 26
        THEN SmlRaised("missing 0x1A")
        ELSE IF ~PyIndexExists(data, count - 3) THEN SmlRaised("IndexError")
        ELSE IF ~SmlChecksumMatches(data)
        THEN SmlRaised("Checksum error")
        ELSE DecodeMessageLoop(data, 8, count - 8 - PyIndex(data, count - 3), << >>)

(***************************************************************************)
(* The decoder on its own: one buffer, decoded as a whole, or one value or *)
(* one type-length field of it decoded at a position of the message body.  *)
(***************************************************************************)

(* Largest number of fill bytes of the frames decoded. *)
MaxFill == 2

(* Last position at which a value or type-length field is decoded; the     *)
(* message body starts at position 8.                                      *)
MaxSmlPos == 10

(* Message bodies: well-formed messages (a list whose last child is the    *)
(* sentinel 00), lists with the sentinel before other children, nested     *)
(* lists ending in the sentinel, type-length fields of two and three bytes,*)
(* type-length fields no branch of __DecodeValue accepts, of one byte and  *)
(* of two, empty lists, and values declared longer than the body.          *)
SmlBodies ==
    { << >>,
      <<0>>,
      <<114, 98, 5, 0>>,
      <<115, 82, 251, 1, 0>>,
      <<115, 114, 98, 1, 66, 1, 1, 0>>,
      <<114, 3, 65, 66, 0>>,
      <<114, 98, 5, 0, 114, 66, 0, 0>>,
      <<115, 0, 98, 5, 0>>,
      <<114, 0, 98, 5>>,
      <<115, 113, 0, 98, 7, 0>>,
      <<114, 114, 98, 7, 0, 0>>,
      <<114, 113, 0, 0>>,
      <<115, 0, 0, 0>>,
      <<114, 129, 2, 65, 0>>,
      <<131, 2, 65, 66>>,
      <<114, 242, 133, 3, 0>>,
      <<129, 1>>,
      <<114, 16, 0>>,
      <<114, 65, 0>>,
      <<114, 97, 0>>,
      <<114, 90, 0>>,
      <<112>>,
      <<114, 112, 0>>,
      <<114, 101, 1, 0>>,
      <<114, 6, 65, 0>>,
      <<115, 99, 255, 254, 83, 128, 0, 0>>,
      <<98, 5>>,
      <<114, 145, 2, 0>>,
      <<145, 2>>,
      <<114, 98, 5, 0, 114, 16, 0>> }

(* A frame as the meter sends it: the two start markers, the body, the     *)
(* fill bytes, the end marker with the number of fill bytes, and the       *)
(* checksum of all that, low byte first.                                   *)
SmlFrame(body, fill) ==
    LET head == __ESCAPE_SEQUENCE \o __SML_START \o body \o [i \in 1..fill |-> 0]
                    \o __ESCAPE_SEQUENCE \o <<26, fill>>
        crc == __CalculateSmlCrc16(head, Len(head))
    IN  head \o <<crc % 256, crc \div 256>>

(* The frame with the byte at a Python index replaced by another byte. *)
WithByteChanged(frame, index) ==
    LET i == IF index < 0 THEN Len(frame) + index + 1 ELSE index + 1
    IN  [frame EXCEPT ![i] = (frame[i] + 1) % 256]

(* The indices at which a received frame is damaged: in either start       *)
(* marker, in the end marker, in the 1A, in the number of fill bytes and   *)
(* in the checksum.                                                        *)
DamagedIndices == {0, 3, 4, 7, -8, -5, -4, -3, -2, -1}

(* The buffers handed to the decoder: frames as sent, frames with one      *)
(* byte damaged or with two, and the beginnings of a frame of fewer than   *)
(* 16 bytes, which is what a read cut short leaves.                        *)
SmlBuffers ==
    LET frames == { SmlFrame(body, fill) : body \in SmlBodies, fill \in 0..MaxFill }
        sample == SmlFrame(<<114, 98, 5, 0>>, 0)
        overlap == __ESCAPE_SEQUENCE \o __SML_START \o __ESCAPE_SEQUENCE \o <<26, 0, 0, 0>>
    IN  frames
        \cup { WithByteChanged(SmlFrame(body, 0), i) :
                   body \in {<<114, 98, 5, 0>>, <<114, 16, 0>>}, i \in DamagedIndices }
        \cup { WithByteChanged(WithByteChanged(sample, i), j) :
                   i \in {0, 4}, j \in {-8, -4, -1} }
        \cup { WithByteChanged(WithByteChanged(sample, i), -1) : i \in {-8, -4} }
        \cup { SubSeq(overlap, 1, k) : k \in 0..16 }
        \cup { SubSeq(sample, 1, k) : k \in 0..15 }

InitSml ==
    /\ pc = "sml"
    /\ argument \in [data : SmlBuffers, pos : 8..MaxSmlPos]
    /\ result = << >>
    /\ NoObject
    /\ NoQuery

(* DecodeSmlMessages(data). *)
CallDecodeSmlMessages ==
    /\ pc = "sml"
    /\ result' = DecodeSmlMessages(argument.data)
    /\ pc' = "messages"
    /\ UNCHANGED <<argument, objectVars, queryVars>>

(* __DecodeValue(data, pos). *)
CallDecodeValue ==
    /\ pc = "sml"
    /\ result' = __DecodeValue(argument.data, argument.pos)
    /\ pc' = "value"
    /\ UNCHANGED <<argument, objectVars, queryVars>>

(* __DecodeTypeLengthField(data, pos). *)
CallDecodeTypeLengthField ==
    /\ pc = "sml"
    /\ result' = __DecodeTypeLengthField(argument.data, argument.pos)
    /\ pc' = "type-length"
    /\ UNCHANGED <<argument, objectVars, queryVars>>

NextSml ==
    \/ CallDecodeSmlMessages
    \/ CallDecodeValue
    \/ CallDecodeTypeLengthField

SpecSml == InitSml /\ [][NextSml]_vars

(***************************************************************************)
(* Properties of the SML decoder.                                          *)
(***************************************************************************)

(* C18: DecodeSmlMessages makes three checks in this order: the start      *)
(* markers (1B 1B 1B 1B at offset 0, 01 01 01 01 at offset 4), the end     *)
(* markers (1B 1B 1B 1B at count-8, 1A at count-4), and the CRC-16/X-25 of *)
(* all bytes but the last two against the last two bytes read              *)
(* little-endian.  The first check that fails gives the error, whatever    *)
(* the length of the buffer, and a message list is returned or the body    *)
(* parsed only when all three pass.                                        *)
C18_ChecksInOrder ==
    pc = "messages" =>
        LET data == argument.data
            count == Len(data)
            startOk == /\ count >= 8
                       /\ SubSeq(data, 1, 4) = <<27, 27, 27, 27>>
                       /\ SubSeq(data, 5, 8) = <<1, 1, 1, 1>>
            endOk == /\ count >= 8
                     /\ SubSeq(data, count - 7, count - 4) = <<27, 27, 27, 27>>
                     /\ data[count - 3] = 26
            crcOk == /\ count >= 2
                     /\ data[count - 1] + 256 * data[count]
                            = __CalculateSmlCrc16(data, count - 2)
        IN  /\ ~startOk =>
                /\ result.raised
                /\ result.error \in {"missing escape sequence at position 0",
                                     "missing SML start sequence at position 4"}
            /\ (startOk /\ ~endOk) =>
                /\ result.raised
                /\ result.error \in {"missing second escape sequence", "missing 0x1A"}
            /\ (startOk /\ endOk /\ ~crcOk) =>
                /\ result.raised
                /\ result.error = "Checksum error"
            /\ (~result.raised
                    \/ result.error \in {"missing end of message", "Unknown data type",
                                         "IndexError"}) =>
                (startOk /\ endOk /\ crcOk)

(* A buffer with good start markers, a damaged 1A and a damaged checksum:  *)
(* the error is the one of the end markers.                                *)
C18_Witness ==
    /\ pc = "messages"
    /\ Len(argument.data) >= 16
    /\ SubSeq(argument.data, 1, 8) = <<27, 27, 27, 27, 1, 1, 1, 1>>
    /\ argument.data[Len(argument.data) - 3] # 26
    /\ argument.data[Len(argument.data) - 1] + 256 * argument.data[Len(argument.data)]
           # __CalculateSmlCrc16(argument.data, Len(argument.data) - 2)
    /\ result.raised
    /\ result.error = "missing 0x1A"

(* C19 as stated: a type-length field of k >= 1 bytes, the first k-1 with  *)
(* bit 0x80 set and the k-th with it clear, is decoded to the field size   *)
(* k, the type in bits 0x70 of the first byte, and the length made of the  *)
(* low nibbles of the k bytes, the first one most significant.  The model  *)
(* refutes it for k >= 2: the loop tests the first byte again and again    *)
(* and ends with an IndexError at the end of the data.                     *)
C19_TypeLengthField ==
    pc = "type-length" =>
        LET data == argument.data
            pos == argument.pos
        IN  \A k \in 1..(Len(data) - pos) :
                (/\ data[pos + k] < 128
                 /\ \A j \in 1..(k - 1) : data[pos + j] >= 128) =>
                    /\ ~result.raised
                    /\ result.value.tlFieldSize = k
                    /\ result.value.dataType = (data[pos + 1] \div 16) % 8
                    /\ result.value.dataLen
                           = IntFromNibbles([j \in 1..k |-> data[pos + j] % 16])

(* The children of a list as the for loop of lines 97-102 meets them, each *)
(* decoded by __DecodeValue where the one before ended, up to the first    *)
(* child that is the sentinel 00 or to the declared number of children:    *)
(* the children before the sentinel, and the position after the last       *)
(* child taken, the sentinel included.                                     *)
RECURSIVE ChildrenUpToSentinel(_, _, _, _, _)
ChildrenUpToSentinel(data, remaining, valueStartPos, valueEndPos, children) ==
    IF remaining = 0
    THEN SmlReturned([children |-> children, valueEndPos |-> valueEndPos])
    ELSE LET child == __DecodeValue(data, valueStartPos)
         IN  IF child.raised THEN child
             ELSE IF PyIndex(data, valueStartPos) = 0
             THEN SmlReturned([children |-> children,
                               valueEndPos |-> child.value.valueEndPos])
             ELSE ChildrenUpToSentinel(data, remaining - 1,
                      child.value.valueEndPos, child.value.valueEndPos,
                      Append(children, child.value.value))

(* C20 as stated: decoding a list of n declared children stops at a child  *)
(* that is the sentinel 00, the sentinel is not an element of the list,    *)
(* and every other decoded child, a nested list included, is an element.   *)
(* The model refutes it: the loop goes on after a sentinel, and a nested   *)
(* list whose last child is a sentinel is left out of the list.            *)
C20_SentinelEndsList ==
    (/\ pc = "value"
     /\ argument.pos < Len(argument.data)
     /\ argument.data[argument.pos + 1] \in 112..127) =>
        LET data == argument.data
            pos == argument.pos
            n == data[pos + 1] % 16
            documented == ChildrenUpToSentinel(data, n, pos + 1, pos + n, << >>)
        IN  ~documented.raised =>
                /\ ~result.raised
                /\ result.value.value.type = "list"
                /\ result.value.value.items = documented.value.children
                /\ result.value.valueEndPos = documented.value.valueEndPos

(* C21 as stated: a type-length field that is neither the sentinel 00 nor  *)
(* a byte string of length >= 1, a boolean of length 2, an integer of      *)
(* length 2..9 or a list ends the decoding with the error 'Unknown data    *)
(* type', and DecodeSmlMessages then returns no message list.  It is       *)
(* stated for the value decoded at a position, and for the buffer whose    *)
(* checks pass and whose body reaches that field through first children    *)
(* of lists only.  The model refutes it for a field whose first byte has   *)
(* bit 0x80 set: the decoding ends with an IndexError instead.             *)
C21_UnknownTypeIsFatal ==
    LET data == argument.data
        pos == argument.pos
        count == Len(data)
        unknown ==
            \E k \in 1..(count - pos) :
                /\ data[pos + k] < 128
                /\ \A j \in 1..(k - 1) : data[pos + j] >= 128
                /\ LET type == (data[pos + 1] \div 16) % 8
                       len == IntFromNibbles([j \in 1..k |-> data[pos + j] % 16])
                   IN  /\ data[pos + 1] # 0
                       /\ ~(type = 0 /\ len >= 1)
                       /\ ~(type = 4 /\ len = 2)
                       /\ ~(type \in {5, 6} /\ len >= 2 /\ len <= 9)
                       /\ type # 7
        reached ==
            /\ count >= 16
            /\ SubSeq(data, 1, 8) = <<27, 27, 27, 27, 1, 1, 1, 1>>
            /\ SubSeq(data, count - 7, count - 3) = <<27, 27, 27, 27, 26>>
            /\ data[count - 1] + 256 * data[count] = __CalculateSmlCrc16(data, count - 2)
            /\ pos < count - 8 - data[count - 2]
            /\ \A p \in 9..pos : data[p] \in 113..127
    IN  /\ (pc = "value" /\ unknown) =>
                (result.raised /\ result.error = "Unknown data type")
        /\ (pc = "messages" /\ unknown /\ reached) =>
                (result.raised /\ result.error = "Unknown data type")

(***************************************************************************)
(* EbzDD3.py: the reader of the electricity meters, which decodes the SML  *)
(* frame a meter sends and takes the readings out of its data sets.        *)
(***************************************************************************)

(* The sample frames at the end of SmlDecoder.py, as received from a       *)
(* meter.                                                                  *)
testData ==
    <<
       << 27, 27, 27, 27, 1, 1, 1, 1, 118, 5, 0, 149, 160, 213, 98, 0,
          98, 0, 114, 101, 0, 0, 1, 1, 118, 1, 1, 7, 101, 66, 90, 68,
          68, 51, 11, 9, 1, 69, 66, 90, 1, 0, 45, 22, 195, 1, 1, 99,
          50, 222, 0, 118, 5, 0, 149, 160, 214, 98, 0, 98, 0, 114, 101, 0,
          0, 7, 1, 119, 1, 11, 9, 1, 69, 66, 90, 1, 0, 45, 22, 195,
          1, 114, 98, 1, 101, 0, 24, 241, 53, 122, 119, 7, 129, 129, 199, 130,
          3, 255, 1, 1, 1, 1, 4, 69, 66, 90, 1, 119, 7, 1, 0, 0,
          0, 9, 255, 1, 1, 1, 1, 11, 9, 1, 69, 66, 90, 1, 0, 45,
          22, 195, 1, 119, 7, 1, 0, 1, 8, 0, 255, 100, 1, 1, 128, 1,
          98, 30, 82, 251, 105, 0, 0, 0, 8, 186, 19, 155, 110, 1, 119, 7,
          1, 0, 1, 8, 1, 255, 1, 1, 98, 30, 82, 251, 105, 0, 0, 0,
          8, 180, 37, 91, 142, 1, 119, 7, 1, 0, 1, 8, 2, 255, 1, 1,
          98, 30, 82, 251, 105, 0, 0, 0, 0, 5, 238, 63, 224, 1, 119, 7,
          1, 0, 2, 8, 0, 255, 100, 1, 1, 128, 1, 98, 30, 82, 251, 105,
          0, 0, 0, 0, 13, 24, 91, 32, 1, 119, 7, 1, 0, 16, 7, 0,
          255, 1, 1, 98, 27, 82, 254, 85, 0, 0, 1, 133, 1, 119, 7, 1,
          0, 36, 7, 0, 255, 1, 1, 98, 27, 82, 254, 85, 0, 0, 1, 133,
          1, 119, 7, 1, 0, 56, 7, 0, 255, 1, 1, 98, 27, 82, 254, 85,
          0, 0, 0, 0, 1, 119, 7, 1, 0, 76, 7, 0, 255, 1, 1, 98,
          27, 82, 254, 85, 0, 0, 0, 0, 1, 1, 1, 99, 136, 214, 0, 118,
          5, 0, 149, 160, 215, 98, 0, 98, 0, 114, 101, 0, 0, 2, 1, 113,
          1, 99, 118, 7, 0, 0, 0, 0, 27, 27, 27, 27, 26, 3, 78, 103 >>,
       << 27, 27, 27, 27, 1, 1, 1, 1, 118, 5, 0, 149, 160, 219, 98, 0,
          98, 0, 114, 101, 0, 0, 1, 1, 118, 1, 1, 7, 101, 66, 90, 68,
          68, 51, 11, 9, 1, 69, 66, 90, 1, 0, 45, 22, 195, 1, 1, 99,
          39, 172, 0, 118, 5, 0, 149, 160, 220, 98, 0, 98, 0, 114, 101, 0,
          0, 7, 1, 119, 1, 11, 9, 1, 69, 66, 90, 1, 0, 45, 22, 195,
          1, 114, 98, 1, 101, 0, 24, 241, 54, 122, 119, 7, 129, 129, 199, 130,
          3, 255, 1, 1, 1, 1, 4, 69, 66, 90, 1, 119, 7, 1, 0, 0,
          0, 9, 255, 1, 1, 1, 1, 11, 9, 1, 69, 66, 90, 1, 0, 45,
          22, 195, 1, 119, 7, 1, 0, 1, 8, 0, 255, 100, 1, 1, 128, 1,
          98, 30, 82, 251, 105, 0, 0, 0, 8, 186, 19, 155, 202, 1, 119, 7,
          1, 0, 1, 8, 1, 255, 1, 1, 98, 30, 82, 251, 105, 0, 0, 0,
          8, 180, 37, 91, 234, 1, 119, 7, 1, 0, 1, 8, 2, 255, 1, 1,
          98, 30, 82, 251, 105, 0, 0, 0, 0, 5, 238, 63, 224, 1, 119, 7,
          1, 0, 2, 8, 0, 255, 100, 1, 1, 128, 1, 98, 30, 82, 251, 105,
          0, 0, 0, 0, 13, 24, 91, 32, 1, 119, 7, 1, 0, 16, 7, 0,
          255, 1, 1, 98, 27, 82, 254, 85, 0, 0, 1, 75, 1, 119, 7, 1,
          0, 36, 7, 0, 255, 1, 1, 98, 27, 82, 254, 85, 0, 0, 1, 75,
          1, 119, 7, 1, 0, 56, 7, 0, 255, 1, 1, 98, 27, 82, 254, 85,
          0, 0, 0, 0, 1, 119, 7, 1, 0, 76, 7, 0, 255, 1, 1, 98,
          27, 82, 254, 85, 0, 0, 0, 0, 1, 1, 1, 99, 86, 171, 0, 118,
          5, 0, 149, 160, 221, 98, 0, 98, 0, 114, 101, 0, 0, 2, 1, 113,
          1, 99, 68, 33, 0, 0, 0, 0, 27, 27, 27, 27, 26, 3, 222, 2 >>,
       << 27, 27, 27, 27, 1, 1, 1, 1, 118, 5, 0, 149, 160, 225, 98, 0,
          98, 0, 114, 101, 0, 0, 1, 1, 118, 1, 1, 7, 101, 66, 90, 68,
          68, 51, 11, 9, 1, 69, 66, 90, 1, 0, 45, 22, 195, 1, 1, 99,
          216, 207, 0, 118, 5, 0, 149, 160, 226, 98, 0, 98, 0, 114, 101, 0,
          0, 7, 1, 119, 1, 11, 9, 1, 69, 66, 90, 1, 0, 45, 22, 195,
          1, 114, 98, 1, 101, 0, 24, 241, 55, 122, 119, 7, 129, 129, 199, 130,
          3, 255, 1, 1, 1, 1, 4, 69, 66, 90, 1, 119, 7, 1, 0, 0,
          0, 9, 255, 1, 1, 1, 1, 11, 9, 1, 69, 66, 90, 1, 0, 45,
          22, 195, 1, 119, 7, 1, 0, 1, 8, 0, 255, 100, 1, 1, 128, 1,
          98, 30, 82, 251, 105, 0, 0, 0, 8, 186, 19, 156, 48, 1, 119, 7,
          1, 0, 1, 8, 1, 255, 1, 1, 98, 30, 82, 251, 105, 0, 0, 0,
          8, 180, 37, 92, 80, 1, 119, 7, 1, 0, 1, 8, 2, 255, 1, 1,
          98, 30, 82, 251, 105, 0, 0, 0, 0, 5, 238, 63, 224, 1, 119, 7,
          1, 0, 2, 8, 0, 255, 100, 1, 1, 128, 1, 98, 30, 82, 251, 105,
          0, 0, 0, 0, 13, 24, 91, 32, 1, 119, 7, 1, 0, 16, 7, 0,
          255, 1, 1, 98, 27, 82, 254, 85, 0, 0, 1, 110, 1, 119, 7, 1,
          0, 36, 7, 0, 255, 1, 1, 98, 27, 82, 254, 85, 0, 0, 1, 110,
          1, 119, 7, 1, 0, 56, 7, 0, 255, 1, 1, 98, 27, 82, 254, 85,
          0, 0, 0, 0, 1, 119, 7, 1, 0, 76, 7, 0, 255, 1, 1, 98,
          27, 82, 254, 85, 0, 0, 0, 0, 1, 1, 1, 99, 234, 254, 0, 118,
          5, 0, 149, 160, 227, 98, 0, 98, 0, 114, 101, 0, 0, 2, 1, 113,
          1, 99, 178, 254, 0, 0, 0, 0, 27, 27, 27, 27, 26, 3, 113, 88 >>,
       << 27, 27, 27, 27, 1, 1, 1, 1, 118, 5, 0, 149, 160, 231, 98, 0,
          98, 0, 114, 101, 0, 0, 1, 1, 118, 1, 1, 7, 101, 66, 90, 68,
          68, 51, 11, 9, 1, 69, 66, 90, 1, 0, 45, 22, 195, 1, 1, 99,
          7, 35, 0, 118, 5, 0, 149, 160, 232, 98, 0, 98, 0, 114, 101, 0,
          0, 7, 1, 119, 1, 11, 9, 1, 69, 66, 90, 1, 0, 45, 22, 195,
          1, 114, 98, 1, 101, 0, 24, 241, 56, 122, 119, 7, 129, 129, 199, 130,
          3, 255, 1, 1, 1, 1, 4, 69, 66, 90, 1, 119, 7, 1, 0, 0,
          0, 9, 255, 1, 1, 1, 1, 11, 9, 1, 69, 66, 90, 1, 0, 45,
          22, 195, 1, 119, 7, 1, 0, 1, 8, 0, 255, 100, 1, 1, 128, 1,
          98, 30, 82, 251, 105, 0, 0, 0, 8, 186, 19, 156, 147, 1, 119, 7,
          1, 0, 1, 8, 1, 255, 1, 1, 98, 30, 82, 251, 105, 0, 0, 0,
          8, 180, 37, 92, 179, 1, 119, 7, 1, 0, 1, 8, 2, 255, 1, 1,
          98, 30, 82, 251, 105, 0, 0, 0, 0, 5, 238, 63, 224, 1, 119, 7,
          1, 0, 2, 8, 0, 255, 100, 1, 1, 128, 1, 98, 30, 82, 251, 105,
          0, 0, 0, 0, 13, 24, 91, 32, 1, 119, 7, 1, 0, 16, 7, 0,
          255, 1, 1, 98, 27, 82, 254, 85, 0, 0, 1, 102, 1, 119, 7, 1,
          0, 36, 7, 0, 255, 1, 1, 98, 27, 82, 254, 85, 0, 0, 1, 102,
          1, 119, 7, 1, 0, 56, 7, 0, 255, 1, 1, 98, 27, 82, 254, 85,
          0, 0, 0, 0, 1, 119, 7, 1, 0, 76, 7, 0, 255, 1, 1, 98,
          27, 82, 254, 85, 0, 0, 0, 0, 1, 1, 1, 99, 192, 239, 0, 118,
          5, 0, 149, 160, 233, 98, 0, 98, 0, 114, 101, 0, 0, 2, 1, 113,
          1, 99, 128, 216, 0, 0, 0, 0, 27, 27, 27, 27, 26, 3, 59, 106 >>,
       << 27, 27, 27, 27, 1, 1, 1, 1, 118, 5, 0, 149, 160, 237, 98, 0,
          98, 0, 114, 101, 0, 0, 1, 1, 118, 1, 1, 7, 101, 66, 90, 68,
          68, 51, 11, 9, 1, 69, 66, 90, 1, 0, 45, 22, 195, 1, 1, 99,
          119, 30, 0, 118, 5, 0, 149, 160, 238, 98, 0, 98, 0, 114, 101, 0,
          0, 7, 1, 119, 1, 11, 9, 1, 69, 66, 90, 1, 0, 45, 22, 195,
          1, 114, 98, 1, 101, 0, 24, 241, 57, 122, 119, 7, 129, 129, 199, 130,
          3, 255, 1, 1, 1, 1, 4, 69, 66, 90, 1, 119, 7, 1, 0, 0,
          0, 9, 255, 1, 1, 1, 1, 11, 9, 1, 69, 66, 90, 1, 0, 45,
          22, 195, 1, 119, 7, 1, 0, 1, 8, 0, 255, 100, 1, 1, 128, 1,
          98, 30, 82, 251, 105, 0, 0, 0, 8, 186, 19, 156, 245, 1, 119, 7,
          1, 0, 1, 8, 1, 255, 1, 1, 98, 30, 82, 251, 105, 0, 0, 0,
          8, 180, 37, 93, 21, 1, 119, 7, 1, 0, 1, 8, 2, 255, 1, 1,
          98, 30, 82, 251, 105, 0, 0, 0, 0, 5, 238, 63, 224, 1, 119, 7,
          1, 0, 2, 8, 0, 255, 100, 1, 1, 128, 1, 98, 30, 82, 251, 105,
          0, 0, 0, 0, 13, 24, 91, 32, 1, 119, 7, 1, 0, 16, 7, 0,
          255, 1, 1, 98, 27, 82, 254, 85, 0, 0, 1, 94, 1, 119, 7, 1,
          0, 36, 7, 0, 255, 1, 1, 98, 27, 82, 254, 85, 0, 0, 1, 94,
          1, 119, 7, 1, 0, 56, 7, 0, 255, 1, 1, 98, 27, 82, 254, 85,
          0, 0, 0, 0, 1, 119, 7, 1, 0, 76, 7, 0, 255, 1, 1, 98,
          27, 82, 254, 85, 0, 0, 0, 0, 1, 1, 1, 99, 129, 118, 0, 118,
          5, 0, 149, 160, 239, 98, 0, 98, 0, 114, 101, 0, 0, 2, 1, 113,
          1, 99, 110, 197, 0, 0, 0, 0, 27, 27, 27, 27, 26, 3, 192, 234 >>,
       << 27, 27, 27, 27, 1, 1, 1, 1, 118, 5, 0, 149, 160, 243, 98, 0,
          98, 0, 114, 101, 0, 0, 1, 1, 118, 1, 1, 7, 101, 66, 90, 68,
          68, 51, 11, 9, 1, 69, 66, 90, 1, 0, 45, 22, 195, 1, 1, 99,
          231, 89, 0, 118, 5, 0, 149, 160, 244, 98, 0, 98, 0, 114, 101, 0,
          0, 7, 1, 119, 1, 11, 9, 1, 69, 66, 90, 1, 0, 45, 22, 195,
          1, 114, 98, 1, 101, 0, 24, 241, 58, 122, 119, 7, 129, 129, 199, 130,
          3, 255, 1, 1, 1, 1, 4, 69, 66, 90, 1, 119, 7, 1, 0, 0,
          0, 9, 255, 1, 1, 1, 1, 11, 9, 1, 69, 66, 90, 1, 0, 45,
          22, 195, 1, 119, 7, 1, 0, 1, 8, 0, 255, 100, 1, 1, 128, 1,
          98, 30, 82, 251, 105, 0, 0, 0, 8, 186, 19, 157, 96, 1, 119, 7,
          1, 0, 1, 8, 1, 255, 1, 1, 98, 30, 82, 251, 105, 0, 0, 0,
          8, 180, 37, 93, 128, 1, 119, 7, 1, 0, 1, 8, 2, 255, 1, 1,
          98, 30, 82, 251, 105, 0, 0, 0, 0, 5, 238, 63, 224, 1, 119, 7,
          1, 0, 2, 8, 0, 255, 100, 1, 1, 128, 1, 98, 30, 82, 251, 105,
          0, 0, 0, 0, 13, 24, 91, 32, 1, 119, 7, 1, 0, 16, 7, 0,
          255, 1, 1, 98, 27, 82, 254, 85, 0, 0, 1, 131, 1, 119, 7, 1,
          0, 36, 7, 0, 255, 1, 1, 98, 27, 82, 254, 85, 0, 0, 1, 131,
          1, 119, 7, 1, 0, 56, 7, 0, 255, 1, 1, 98, 27, 82, 254, 85,
          0, 0, 0, 0, 1, 119, 7, 1, 0, 76, 7, 0, 255, 1, 1, 98,
          27, 82, 254, 85, 0, 0, 0, 0, 1, 1, 1, 99, 84, 183, 0, 118,
          5, 0, 149, 160, 245, 98, 0, 98, 0, 114, 101, 0, 0, 2, 1, 113,
          1, 99, 140, 185, 0, 0, 0, 0, 27, 27, 27, 27, 26, 3, 87, 68 >>,
       << 27, 27, 27, 27, 1, 1, 1, 1, 118, 5, 0, 149, 160, 249, 98, 0,
          98, 0, 114, 101, 0, 0, 1, 1, 118, 1, 1, 7, 101, 66, 90, 68,
          68, 51, 11, 9, 1, 69, 66, 90, 1, 0, 45, 22, 195, 1, 1, 99,
          151, 100, 0, 118, 5, 0, 149, 160, 250, 98, 0, 98, 0, 114, 101, 0,
          0, 7, 1, 119, 1, 11, 9, 1, 69, 66, 90, 1, 0, 45, 22, 195,
          1, 114, 98, 1, 101, 0, 24, 241, 59, 122, 119, 7, 129, 129, 199, 130,
          3, 255, 1, 1, 1, 1, 4, 69, 66, 90, 1, 119, 7, 1, 0, 0,
          0, 9, 255, 1, 1, 1, 1, 11, 9, 1, 69, 66, 90, 1, 0, 45,
          22, 195, 1, 119, 7, 1, 0, 1, 8, 0, 255, 100, 1, 1, 128, 1,
          98, 30, 82, 251, 105, 0, 0, 0, 8, 186, 19, 157, 186, 1, 119, 7,
          1, 0, 1, 8, 1, 255, 1, 1, 98, 30, 82, 251, 105, 0, 0, 0,
          8, 180, 37, 93, 218, 1, 119, 7, 1, 0, 1, 8, 2, 255, 1, 1,
          98, 30, 82, 251, 105, 0, 0, 0, 0, 5, 238, 63, 224, 1, 119, 7,
          1, 0, 2, 8, 0, 255, 100, 1, 1, 128, 1, 98, 30, 82, 251, 105,
          0, 0, 0, 0, 13, 24, 91, 32, 1, 119, 7, 1, 0, 16, 7, 0,
          255, 1, 1, 98, 27, 82, 254, 85, 0, 0, 1, 69, 1, 119, 7, 1,
          0, 36, 7, 0, 255, 1, 1, 98, 27, 82, 254, 85, 0, 0, 1, 69,
          1, 119, 7, 1, 0, 56, 7, 0, 255, 1, 1, 98, 27, 82, 254, 85,
          0, 0, 0, 0, 1, 119, 7, 1, 0, 76, 7, 0, 255, 1, 1, 98,
          27, 82, 254, 85, 0, 0, 0, 0, 1, 1, 1, 99, 5, 139, 0, 118,
          5, 0, 149, 160, 251, 98, 0, 98, 0, 114, 101, 0, 0, 2, 1, 113,
          1, 99, 10, 137, 0, 0, 0, 0, 27, 27, 27, 27, 26, 3, 171, 180 >>
    >>

(* Python's v[i] on a decoded value, for i >= 0: an element of a list, a   *)
(* byte of a byte string as an integer, IndexError past the end, TypeError *)
(* on an integer or a boolean.                                             *)
PyGetItem(v, i) ==
    IF v.type = "list"
    THEN IF i < Len(v.items) THEN SmlReturned(v.items[i + 1]) ELSE SmlRaised("IndexError")
    ELSE IF v.type = "bytes"
    THEN IF i < Len(v.bytes) THEN SmlReturned(IntValue(<<v.bytes[i + 1]>>, FALSE))
         ELSE SmlRaised("IndexError")
    ELSE SmlRaised("TypeError")

(* Python's v[path[1]][path[2]]... *)
RECURSIVE PyGetPath(_, _)
PyGetPath(v, path) ==
    IF Len(path) = 0 THEN SmlReturned(v)
    ELSE LET item == PyGetItem(v, Head(path))
         IN  IF item.raised THEN item ELSE PyGetPath(item.value, Tail(path))

(* A variant of ObisReadings that divides the meter reading +A by 1E2 as   *)
(* it does the powers: with it C22 fails.                                  *)
ObisReadingsAllByHundred ==
    << [id |-> <<1, 0, 1, 8, 0, 255>>, name |-> "+A", divisor |-> 100],
       [id |-> <<1, 0, 1, 8, 1, 255>>, name |-> "+A T1", divisor |-> 100000000],
       [id |-> <<1, 0, 1, 8, 2, 255>>, name |-> "+A T2", divisor |-> 100000000],
       [id |-> <<1, 0, 2, 8, 0, 255>>, name |-> "-A", divisor |-> 100000000],
       [id |-> <<1, 0, 16, 7, 0, 255>>, name |-> "P", divisor |-> 100],
       [id |-> <<1, 0, 36, 7, 0, 255>>, name |-> "P L1", divisor |-> 100],
       [id |-> <<1, 0, 56, 7, 0, 255>>, name |-> "P L2", divisor |-> 100],
       [id |-> <<1, 0, 76, 7, 0, 255>>, name |-> "P L3", divisor |-> 100] >>

(* The identifiers __ExtractInfoFromDataSet knows, in the order it tests   *)
(* them, with the name of the reading and the divisor of its value.        *)
ObisReadings ==
    << [id |-> <<1, 0, 1, 8, 0, 255>>, name |-> "+A", divisor |-> 100000000],
       [id |-> <<1, 0, 1, 8, 1, 255>>, name |-> "+A T1", divisor |-> 100000000],
       [id |-> <<1, 0, 1, 8, 2, 255>>, name |-> "+A T2", divisor |-> 100000000],
       [id |-> <<1, 0, 2, 8, 0, 255>>, name |-> "-A", divisor |-> 100000000],
       [id |-> <<1, 0, 16, 7, 0, 255>>, name |-> "P", divisor |-> 100],
       [id |-> <<1, 0, 36, 7, 0, 255>>, name |-> "P L1", divisor |-> 100],
       [id |-> <<1, 0, 56, 7, 0, 255>>, name |-> "P L2", divisor |-> 100],
       [id |-> <<1, 0, 76, 7, 0, 255>>, name |-> "P L3", divisor |-> 100] >>

(* __ExtractInfoFromDataSet(dataSet).  Both dataSet[0] and dataSet[5] are  *)
(* read before the identifier is looked at.  The reading value / divisor   *)
(* is kept as the sign and magnitude of the value with the divisor; the    *)
(* division is a TypeError for a value that is a byte string or a list.    *)
(* The name "" stands for the None of an identifier that is not known.     *)
EbzDD3__ExtractInfoFromDataSet(dataSet) ==
    LET id == PyGetItem(dataSet, 0)
        value == PyGetItem(dataSet, 5)
        known == { i \in 1..Len(ObisReadings) :
                       id.value.type = "bytes" /\ id.value.bytes = ObisReadings[i].id }
    IN  IF id.raised THEN id
        ELSE IF value.raised THEN value
        ELSE IF known = {} THEN SmlReturned([name |-> "", reading |-> << >>])
        ELSE IF value.value.type \notin {"int", "bool"} THEN SmlRaised("TypeError")
        ELSE LET reading == ObisReadings[CHOOSE i \in known : TRUE]
             IN  SmlReturned([name |-> reading.name,
                              reading |-> [neg |-> value.value.neg,
                                           magnitude |-> StripLeadingZeros(value.value.bytes),
                                           divisor |-> reading.divisor]])

(* The for loop of __ExtractInfoFromData over the data sets, lines 221-225.*)
RECURSIVE ExtractInfoLoop(_, _)
ExtractInfoLoop(dataSets, info) ==
    IF Len(dataSets) = 0 THEN SmlReturned(info)
    ELSE LET one == EbzDD3__ExtractInfoFromDataSet(Head(dataSets))
         IN  IF one.raised THEN one
             ELSE ExtractInfoLoop(Tail(dataSets),
                      IF one.value.name # ""
                      THEN (one.value.name :> one.value.reading) @@ info
                      ELSE info)

(* __ExtractInfoFromData(data).  Iterating over a byte string gives its    *)
(* bytes as integers; an integer or a boolean cannot be iterated over.     *)
EbzDD3__ExtractInfoFromData(data) ==
    LET messageList == DecodeSmlMessages(data)
        dataSetList == PyGetPath(SmlValue("list", FALSE, << >>, messageList.value),
                                 <<1, 3, 1, 4>>)
    IN  IF messageList.raised THEN messageList
        ELSE IF dataSetList.raised THEN dataSetList
        ELSE IF dataSetList.value.type = "list"
        THEN ExtractInfoLoop(dataSetList.value.items, << >>)
        ELSE IF dataSetList.value.type = "bytes"
        THEN ExtractInfoLoop([i \in 1..Len(dataSetList.value.bytes) |->
                                  IntValue(<<dataSetList.value.bytes[i]>>, FALSE)], << >>)
        ELSE SmlRaised("TypeError")

(* ReceiveInfo, lines 263-272, for the data __ReceiveInfoData returned:    *)
(* every exception ends in (False, {}).                                    *)
EbzDD3ReceiveInfo(data) ==
    IF Len(data) = 0 THEN [success |-> FALSE, info |-> << >>]
    ELSE LET info == EbzDD3__ExtractInfoFromData(data)
         IN  IF info.raised THEN [success |-> FALSE, info |-> << >>]
             ELSE [success |-> TRUE, info |-> info.value]

(***************************************************************************)
(* The meter reader on its own: ReceiveInfo on the data received from the  *)
(* meter of one channel.                                                   *)
(***************************************************************************)

(* A data set of 7 fields as the meter sends it: the identifier, four      *)
(* empty fields, the value (with its type-length field) and an empty       *)
(* field.                                                                  *)
DataSet(id, value) == <<119, 7>> \o id \o <<1, 1, 1, 1>> \o value \o <<1>>

(* A frame of two messages whose second one holds the data sets at the     *)
(* path [1][3][1][4], as in the sample frames.                             *)
MeterFrame(dataSets) ==
    LET RECURSIVE Flatten(_)
        Flatten(s) == IF Len(s) = 0 THEN << >> ELSE Head(s) \o Flatten(Tail(s))
    IN  SmlFrame(<<113, 0, 117, 1, 1, 1, 114, 1, 117, 1, 1, 1, 1, 112 + Len(dataSets)>>
                     \o Flatten(dataSets) \o <<0>>, 0)

(* The data sets of the 8 known identifiers, with values of 1 to 4 bytes,  *)
(* unsigned and signed.                                                    *)
KnownDataSets ==
    [i \in 1..Len(ObisReadings) |->
        DataSet(ObisReadings[i].id,
                IF i <= 4 THEN <<101, 0, 7 * i, 1, i>>
                ELSE IF i = 5 THEN <<83, 254, 123>>
                ELSE <<98, 10 * i>>)]

(* Data sets with an identifier that is not known: of 7 fields as in the   *)
(* sample frames, of 6, 5, 2 and 1 fields, an empty list, and values that  *)
(* are no list: a byte string of 6 bytes, one of 2 bytes, an integer.      *)
UnknownDataSets ==
    { DataSet(<<129, 129, 199, 130, 3, 255>>, <<4, 69, 66, 90>>),
      <<118, 7, 1, 0, 0, 0, 9, 255, 1, 1, 1, 1, 98, 1>>,
      <<117, 7, 1, 0, 0, 0, 9, 255, 1, 1, 1, 1>>,
      <<114, 7, 1, 0, 0, 0, 9, 255, 98, 1>>,
      <<113, 7, 1, 0, 0, 0, 9, 255>>,
      <<112>>,
      <<7, 1, 0, 0, 0, 9, 255>>,
      <<3, 1, 0>>,
      <<98, 9>> }

(* Known identifiers with a value that is no number, and a boolean one. *)
OddKnownDataSets ==
    { DataSet(<<1, 0, 16, 7, 0, 255>>, <<3, 65, 66>>),
      DataSet(<<1, 0, 16, 7, 0, 255>>, <<66, 1>>),
      DataSet(<<1, 0, 16, 7, 0, 255>>, <<113, 98, 1>>),
      <<114, 7, 1, 0, 16, 7, 0, 255, 98, 1>> }

(* Sequence s without its i-th element. *)
Without(s, i) == SubSeq(s, 1, i - 1) \o SubSeq(s, i + 1, Len(s))

(* What __ReceiveInfoData hands to the decoder: nothing, the sample        *)
(* frames, frames with the 8 known data sets alone, with a further data    *)
(* set before, between or after them, with one of the 8 missing or sent    *)
(* twice, frames without the second message or with another value at the   *)
(* path of the data sets, and frames damaged on the line.                  *)
MeterBuffers ==
    LET all == MeterFrame(KnownDataSets)
    IN  { << >>, all }
        \cup { testData[i] : i \in 1..Len(testData) }
        \cup { MeterFrame(<<u>> \o KnownDataSets) : u \in UnknownDataSets \cup OddKnownDataSets }
        \cup { MeterFrame(SubSeq(KnownDataSets, 1, 4) \o <<u>> \o SubSeq(KnownDataSets, 5, 8)) :
                   u \in UnknownDataSets }
        \cup { MeterFrame(KnownDataSets \o <<u>>) : u \in UnknownDataSets \cup OddKnownDataSets }
        \cup { MeterFrame(Without(KnownDataSets, i)) : i \in 1..Len(KnownDataSets) }
        \cup { MeterFrame(Append(KnownDataSets, KnownDataSets[i])) : i \in {1, 5} }
        \cup { MeterFrame(<< >>), MeterFrame(<<KnownDataSets[1]>>) }
        \cup { SmlFrame(body, 0) :
                   body \in { <<113, 0>>,
                              <<113, 0, 113, 0>>,
                              <<113, 0, 117, 1, 1, 1, 98, 1, 0>>,
                              <<113, 0, 117, 1, 1, 1, 114, 1, 117, 1, 1, 1, 1, 98, 1, 0>>,
                              <<113, 0, 117, 1, 1, 1, 114, 1, 117, 1, 1, 1, 1, 1, 0>>,
                              <<113, 0, 117, 1, 1, 1, 114, 1, 117, 1, 1, 1, 1, 3, 65, 66, 0>>,
                              <<113, 0, 117, 1, 1, 1, 114, 1, 7, 65, 66, 67, 68, 69, 70, 0>> } }
        \cup { WithByteChanged(all, i) : i \in {0, 20, -4, -1} }
        \cup { WithByteChanged(testData[1], i) : i \in {100, -2} }
        \cup { SubSeq(all, 1, k) : k \in {1, 8, 40} }

InitMeter ==
    /\ pc = "meter"
    /\ argument \in [data : MeterBuffers, channelNum : {0, 1}]
    /\ result = << >>
    /\ NoObject
    /\ NoQuery

(* ReceiveInfo(channelNum) when __ReceiveInfoData returns argument.data. *)
CallReceiveInfo ==
    /\ pc = "meter"
    /\ result' = EbzDD3ReceiveInfo(argument.data)
    /\ pc' = "received"
    /\ UNCHANGED <<argument, objectVars, queryVars>>

(* __ExtractInfoFromData(data), without the except clause of ReceiveInfo. *)
CallExtractInfoFromData ==
    /\ pc = "meter"
    /\ result' = EbzDD3__ExtractInfoFromData(argument.data)
    /\ pc' = "extracted-info"
    /\ UNCHANGED <<argument, objectVars, queryVars>>

NextMeter ==
    \/ CallReceiveInfo
    \/ CallExtractInfoFromData

SpecMeter == InitMeter /\ [][NextMeter]_vars

(***************************************************************************)
(* Properties of the meter reader.                                         *)
(***************************************************************************)

(* C22: each of the sample frames decodes without error: the markers and   *)
(* the checksum pass, every top-level message ends with the sentinel (no   *)
(* error 'missing end of message'), three messages are returned, and the   *)
(* list at the path [1][3][1][4] holds a data set whose field 0 is the     *)
(* identifier 01 00 01 08 00 FF and whose field 5 is the integer that      *)
(* ReceiveInfo reports as '+A', divided by 1E8.                            *)
C22_SampleFramesDecode ==
    (pc = "received" /\ \E i \in 1..Len(testData) : argument.data = testData[i]) =>
        LET messages == DecodeSmlMessages(argument.data)
            sets == PyGetPath(SmlValue("list", FALSE, << >>, messages.value), <<1, 3, 1, 4>>)
        IN  /\ ~messages.raised
            /\ Len(messages.value) = 3
            /\ ~sets.raised
            /\ sets.value.type = "list"
            /\ result.success
            /\ "+A" \in DOMAIN result.info
            /\ \E k \in 1..Len(sets.value.items) :
                   LET dataSet == sets.value.items[k]
                   IN  /\ dataSet.type = "list"
                       /\ Len(dataSet.items) >= 6
                       /\ dataSet.items[1].type = "bytes"
                       /\ dataSet.items[1].bytes = <<1, 0, 1, 8, 0, 255>>
                       /\ dataSet.items[6].type = "int"
                       /\ result.info["+A"] = [neg |-> dataSet.items[6].neg,
                                               magnitude |-> dataSet.items[6].bytes,
                                               divisor |-> 100000000]

(* The first sample frame read: '+A' is 0x08BA139B6E / 1E8. *)
C22_Witness ==
    /\ pc = "received"
    /\ argument.data = testData[1]
    /\ result.success
    /\ "+A" \in DOMAIN result.info
    /\ result.info["+A"].magnitude = <<8, 186, 19, 155, 110>>

(* C23 as stated: a data set whose identifier is not one of the 8 known    *)
(* ones is skipped without error, whatever its other fields and however    *)
(* many fields it has: when every data set of the message is either such   *)
(* a data set or one of a known identifier with a number as its value, the *)
(* read succeeds and reports every known data set.  The model refutes it:  *)
(* a data set of fewer than 6 fields makes the read fail.                  *)
C23_UnknownDataSetsSkipped ==
    pc = "received" =>
        LET messages == DecodeSmlMessages(argument.data)
            sets == PyGetPath(SmlValue("list", FALSE, << >>, messages.value), <<1, 3, 1, 4>>)
            ids == { ObisReadings[i].id : i \in 1..Len(ObisReadings) }
            HasKnownId(dataSet) ==
                /\ dataSet.type = "list"
                /\ Len(dataSet.items) >= 1
                /\ dataSet.items[1].type = "bytes"
                /\ dataSet.items[1].bytes \in ids
            IsKnown(dataSet) ==
                /\ HasKnownId(dataSet)
                /\ Len(dataSet.items) >= 6
                /\ dataSet.items[6].type \in {"int", "bool"}
            IsUnknown(dataSet) ==
                /\ dataSet.type = "list"
                /\ Len(dataSet.items) >= 1
                /\ ~HasKnownId(dataSet)
        IN  (/\ ~messages.raised
             /\ ~sets.raised
             /\ sets.value.type = "list"
             /\ \A k \in 1..Len(sets.value.items) :
                    IsKnown(sets.value.items[k]) \/ IsUnknown(sets.value.items[k])) =>
                /\ result.success
                /\ \A k \in 1..Len(sets.value.items) :
                       IsKnown(sets.value.items[k]) =>
                           \E i \in 1..Len(ObisReadings) :
                               /\ ObisReadings[i].id = sets.value.items[k].items[1].bytes
                               /\ ObisReadings[i].name \in DOMAIN result.info

(* C24 as stated: the map of every successful ReceiveInfo has exactly the  *)
(* 8 keys '+A', '+A T1', '+A T2', '-A', 'P', 'P L1', 'P L2', 'P L3'.  The  *)
(* model refutes it: a message without one of the 8 identifiers is a       *)
(* success with a smaller map.                                             *)
C24_EightReadings ==
    (pc = "received" /\ result.success) =>
        DOMAIN result.info = {"+A", "+A T1", "+A T2", "-A", "P", "P L1", "P L2", "P L3"}

(***************************************************************************)
(* Main.py: the main loop and the poll cycle CollectData.  The variable    *)
(* argument holds the loop counter, result the facts of the current        *)
(* cycle: whether it is daylight, what the read of each meter gave, the    *)
(* map the last read returned, and whether the inverter was queried.       *)
(***************************************************************************)

(* Largest number of poll cycles the main loop starts. *)
MaxCycles == 2

InitCycle ==
    /\ pc = "main"
    /\ argument = [counter |-> 0]
    /\ result = [daylight |-> FALSE, em0 |-> "none", em1 |-> "none",
                 info |-> << >>, queried |-> FALSE]
    /\ NoObject
    /\ NoQuery

(* The head of the while loop of MainLoop, lines 69-71, at the start and   *)
(* after time.sleep(delayTime) of line 83; whether the sun shines during   *)
(* the cycle is given from outside.                                        *)
StartCycle ==
    /\ pc \in {"main", "sleeping"}
    /\ argument.counter < MaxCycles
    /\ argument' = [counter |-> argument.counter + 1]
    /\ \E daylight \in BOOLEAN :
           result' = [daylight |-> daylight, em0 |-> "none", em1 |-> "none",
                      info |-> << >>, queried |-> FALSE]
    /\ pc' = "em0"
    /\ UNCHANGED <<objectVars, queryVars>>

(* success, info = electricityMeter.ReceiveInfo(n), lines 95 and 100, for  *)
(* what the meter sent: nothing, a frame with the 8 data sets, a frame     *)
(* with 7 of them, a frame damaged on the line.                            *)
ReadMeter(n) ==
    /\ pc = (IF n = 0 THEN "em0" ELSE "em1")
    /\ \E data \in { << >>, MeterFrame(KnownDataSets),
                     MeterFrame(Without(KnownDataSets, 8)),
                     WithByteChanged(MeterFrame(KnownDataSets), 20) } :
       \E received \in { EbzDD3ReceiveInfo(data) } :
           LET read == IF received.success THEN "read" ELSE "failed"
           IN  /\ result' = IF n = 0
                            THEN [result EXCEPT !.em0 = read, !.info = received.info]
                            ELSE [result EXCEPT !.em1 = read, !.info = received.info]
               /\ pc' = IF received.success
                        THEN (IF n = 0 THEN "store0" ELSE "store1")
                        ELSE (IF n = 0 THEN "em1" ELSE "sun")
    /\ UNCHANGED <<argument, objectVars, queryVars>>

(* database.InsertReadingsElectricityMeter(n, info), lines 98 and 103.     *)
(* The writer reads the 8 columns from the map and raises KeyError when    *)
(* one is missing; it also raises when the storage fails.  Nothing in      *)
(* CollectData or MainLoop catches the exception.                          *)
StoreMeter(n) ==
    /\ pc = (IF n = 0 THEN "store0" ELSE "store1")
    /\ \E storageFails \in BOOLEAN :
           pc' = IF storageFails
                    \/ DOMAIN result.info
                           # {"+A", "+A T1", "+A T2", "-A", "P", "P L1", "P L2", "P L3"}
                 THEN "raised"
                 ELSE (IF n = 0 THEN "em1" ELSE "sun")
    /\ UNCHANGED <<argument, result, objectVars, queryVars>>

(* dawn < now < dusk, lines 106-108. *)
SunTimes ==
    /\ pc = "sun"
    /\ pc' = IF result.daylight THEN "query" ELSE "commit"
    /\ UNCHANGED <<argument, result, objectVars, queryVars>>

(* success, infoHm = inverter.QueryInverterInfo(), line 109: it returns    *)
(* readings, returns a failure, or raises.                                 *)
QueryInverter ==
    /\ pc = "query"
    /\ result' = [result EXCEPT !.queried = TRUE]
    /\ \E next \in {"store-inverter", "commit", "raised"} : pc' = next
    /\ UNCHANGED <<argument, objectVars, queryVars>>

(* database.InsertReadingsInverter(infoHm), line 112. *)
StoreInverter ==
    /\ pc = "store-inverter"
    /\ \E storageFails \in BOOLEAN : pc' = IF storageFails THEN "raised" ELSE "commit"
    /\ UNCHANGED <<argument, result, objectVars, queryVars>>

(* db.Commit() and the rest of the loop body up to time.sleep, lines 74-83.*)
Commit ==
    /\ pc = "commit"
    /\ \E storageFails \in BOOLEAN : pc' = IF storageFails THEN "raised" ELSE "sleeping"
    /\ UNCHANGED <<argument, result, objectVars, queryVars>>

(* The exception leaves MainLoop; the except clause of the entry point     *)
(* logs it and the finally clause logs that the application stopped, lines *)
(* 144-148.                                                                *)
LogError ==
    /\ pc = "raised"
    /\ pc' = "stopped"
    /\ UNCHANGED <<argument, result, objectVars, queryVars>>

NextCycle ==
    \/ StartCycle
    \/ ReadMeter(0)
    \/ StoreMeter(0)
    \/ ReadMeter(1)
    \/ StoreMeter(1)
    \/ SunTimes
    \/ QueryInverter
    \/ StoreInverter
    \/ Commit
    \/ LogError

SpecCycle == InitCycle /\ [][NextCycle]_vars

(* C25 as stated: ReceiveInfo never raises, and in a poll cycle a failed   *)
(* read of meter 0 is still followed by the read of meter 1 and, during    *)
(* daylight, by the inverter query.  The model refutes the last part: the  *)
(* cycle ends without the query when storing the readings of meter 1       *)
(* raises.                                                                 *)
C25_FailedReadDoesNotStopCycle ==
    (pc \in {"sleeping", "stopped"} /\ result.em0 = "failed") =>
        /\ result.em1 # "none"
        /\ result.daylight => result.queried

(* C26 as stated: an error raised during a poll cycle, in CollectData or   *)
(* in the commit after it, is logged and only that cycle is skipped; the   *)
(* main loop goes on with the next cycle and the process never stops.  The *)
(* model refutes it: the error leaves the main loop and the process ends.  *)
C26_ProcessKeepsRunning ==
    pc # "stopped"

(***************************************************************************)
(* A poll cycle with peers that never respond.  The meters send no byte    *)
(* and the radio has no frame available.  Time is what the code reads from *)
(* the clock: for the serial reads the tenths of a second since tm, for    *)
(* the radio scan the milliseconds left until endTime.  The variable       *)
(* argument holds the local variables of the running read or scan, result  *)
(* what the three calls of the cycle returned.                             *)
(***************************************************************************)

(* timeout=0.1 of serial.Serial, EbzDD3.py line 74, in tenths of a second. *)
SerialTimeout == 1

(* timeoutBetweenBytes = 0.3 of both __ReadBlock calls, lines 146 and 149. *)
TimeoutBetweenBytes == 3

(* timeoutFirstByte = 1.0 of the second __ReadBlock call, line 149. *)
TimeoutFirstByte == 10

(* timeout for channel scan, in milliseconds *)
__RECEIVE_TIMEOUT_MS == 5

(* range(100) of the scan loop, HoymilesHmDtu.py line 249. *)
ScanSlots == 100

(* numberOfRetries : int = 20, the default Main.py line 109 calls with. *)
DefaultNumberOfRetries == 20

(* Largest time since tm, in tenths of a second, at which a serial read    *)
(* still starts.                                                           *)
MaxElapsed == 14

silentVars == <<radioReady, paLevel, listening, numberOfRetries, retryIndex, txChannel,
                rxChannelList, currentTime, txPacket, responseList, verdict, outcome,
                writeCount, scanCount, sleepCount>>

InitSilent ==
    /\ pc = "select0"
    /\ argument = [elapsed |-> 0, retryIndex |-> 0, rxChannelIndex |-> 0, remaining |-> 0]
    /\ \E daylight \in BOOLEAN :
           result = [daylight |-> daylight, em0 |-> "none", em1 |-> "none", hm |-> "none"]
    /\ NoObject
    /\ NoQuery

(* __ReceiveInfoData up to the first clock read of the first __ReadBlock,  *)
(* lines 137-146 and 102-117: the channel is selected, the input buffer    *)
(* reset, the garbage collector disabled; timeoutFirstByte is 0.0, so the  *)
(* block starts with tm = time.time() of line 117.                         *)
SelectMeter(n) ==
    /\ pc = (IF n = 0 THEN "select0" ELSE "select1")
    /\ argument' = [argument EXCEPT !.elapsed = 0]
    /\ gcEnabled' = FALSE
    /\ pc' = (IF n = 0 THEN "gap0" ELSE "gap1")
    /\ UNCHANGED <<result, objectVars, silentVars>>

(* One turn of the loop of lines 119-123 on a silent line: ser.read()      *)
(* returns no byte after the timeout of the port, and the clock is read    *)
(* again a little later.  When the test of line 119 fails the block        *)
(* returns and the second __ReadBlock starts with tm = time.time(), line   *)
(* 103.                                                                    *)
WaitForGap(n) ==
    /\ pc = (IF n = 0 THEN "gap0" ELSE "gap1")
    /\ IF argument.elapsed < TimeoutBetweenBytes
       THEN /\ \E late \in 0..1 :
                   argument' = [argument EXCEPT !.elapsed = @ + SerialTimeout + late]
            /\ pc' = pc
       ELSE /\ argument' = [argument EXCEPT !.elapsed = 0]
            /\ pc' = (IF n = 0 THEN "first0" ELSE "first1")
    /\ UNCHANGED <<result, gcEnabled, objectVars, silentVars>>

(* The test of line 113 with a never-true condition: the loop of lines     *)
(* 107-114 does not end on a silent line.                                  *)
FirstByteNeverTimedOut(elapsed, timeoutFirstByte) ==
    elapsed < 0

(* time.time() - tm > timeoutFirstByte, line 113. *)
FirstByteTimedOut(elapsed, timeoutFirstByte) ==
    elapsed > timeoutFirstByte

(* One turn of the loop of lines 107-114 on a silent line: ser.read()      *)
(* returns no byte after the timeout of the port; when the first-byte      *)
(* timeout has passed __ReadBlock returns the empty data, __ReceiveInfoData*)
(* returns it (line 151, the garbage collector stays disabled) and         *)
(* ReceiveInfo returns (False, {}), lines 265-266.                         *)
WaitForFirstByte(n) ==
    /\ pc = (IF n = 0 THEN "first0" ELSE "first1")
    /\ argument.elapsed < MaxElapsed
    /\ \E late \in 0..1 :
           LET elapsed == argument.elapsed + SerialTimeout + late
           IN  /\ argument' = [argument EXCEPT !.elapsed = elapsed]
               /\ IF FirstByteTimedOut(elapsed, TimeoutFirstByte)
                  THEN /\ result' = IF n = 0 THEN [result EXCEPT !.em0 = "failed"]
                                             ELSE [result EXCEPT !.em1 = "failed"]
                       /\ pc' = (IF n = 0 THEN "select1" ELSE "daylight")
                  ELSE /\ pc' = pc
                       /\ UNCHANGED result
    /\ UNCHANGED <<gcEnabled, objectVars, silentVars>>

(* dawn < now < dusk, Main.py lines 106-108: at night the inverter is not  *)
(* queried and CollectData returns.                                        *)
CheckDaylight ==
    /\ pc = "daylight"
    /\ pc' = IF result.daylight THEN "attempt" ELSE "collected"
    /\ UNCHANGED <<argument, result, gcEnabled, objectVars, silentVars>>

(* The head of the retry loop of QueryInverterInfo, lines 164-178, and     *)
(* __SendRequestAndScanForResponses up to the first clock read of the      *)
(* first slot, lines 235-254: after the sleep between two attempts the     *)
(* request is written and the first slot gets its endTime.  After the last *)
(* attempt QueryInverterInfo returns (False, {}), line 190.                *)
SendRequest ==
    /\ pc = "attempt"
    /\ IF argument.retryIndex < DefaultNumberOfRetries
       THEN /\ argument' = [argument EXCEPT !.rxChannelIndex = 0,
                                            !.remaining = __RECEIVE_TIMEOUT_MS]
            /\ gcEnabled' = FALSE
            /\ pc' = "scan"
            /\ UNCHANGED result
       ELSE /\ result' = [result EXCEPT !.hm = "failed"]
            /\ pc' = "collected"
            /\ UNCHANGED <<argument, gcEnabled>>
    /\ UNCHANGED <<objectVars, silentVars>>

(* One turn of the loop of lines 256-264 with no frame available: the      *)
(* clock is read, radio.available() is false, and time has passed at the   *)
(* next test of line 256.                                                  *)
PollRadio ==
    /\ pc = "scan"
    /\ argument.remaining > 0
    /\ \E passed \in 1..2 :
           argument' = [argument EXCEPT !.remaining = @ - passed]
    /\ UNCHANGED <<pc, result, gcEnabled, objectVars, silentVars>>

(* The test of line 256 fails: the next slot starts with its own endTime,  *)
(* lines 249-254; after the last slot the garbage collector is enabled     *)
(* again, the empty response list is returned and evaluated without        *)
(* success, lines 266-273 and 181-182, and the retry loop goes on.         *)
EndSlot ==
    /\ pc = "scan"
    /\ argument.remaining <= 0
    /\ IF argument.rxChannelIndex + 1 < ScanSlots
       THEN /\ argument' = [argument EXCEPT !.rxChannelIndex = @ + 1,
                                            !.remaining = __RECEIVE_TIMEOUT_MS]
            /\ UNCHANGED <<pc, gcEnabled>>
       ELSE /\ argument' = [argument EXCEPT !.retryIndex = @ + 1]
            /\ gcEnabled' = TRUE
            /\ pc' = "attempt"
    /\ UNCHANGED <<result, objectVars, silentVars>>

NextSilent ==
    \/ SelectMeter(0)
    \/ WaitForGap(0)
    \/ WaitForFirstByte(0)
    \/ SelectMeter(1)
    \/ WaitForGap(1)
    \/ WaitForFirstByte(1)
    \/ CheckDaylight
    \/ SendRequest
    \/ PollRadio
    \/ EndSlot

(* The program is sequential and its clock advances: a step that can be    *)
(* taken is taken.                                                         *)
SpecSilent == InitSilent /\ [][NextSilent]_vars /\ WF_vars(NextSilent)

(* C27: with peers that never respond a poll cycle ends.  The read of a    *)
(* silent meter ends once its first-byte timeout has passed, at most one   *)
(* read of the port later, and ReceiveInfo returns (False, {}); a radio    *)
(* scan ends after its 100 slots, each over at most the receive timeout    *)
(* and one poll later; the inverter query returns a failure after its      *)
(* attempts.                                                               *)
C27_SilentPeersDoNotStall ==
    /\ [](/\ pc \in {"first0", "first1"} =>
                 argument.elapsed <= TimeoutFirstByte
          /\ pc \in {"select1", "daylight"} =>
                 /\ argument.elapsed > TimeoutFirstByte
                 /\ argument.elapsed <= TimeoutFirstByte + SerialTimeout + 1
          /\ pc = "scan" =>
                 /\ argument.rxChannelIndex < ScanSlots
                 /\ argument.remaining > -2
                 /\ argument.remaining <= __RECEIVE_TIMEOUT_MS)
    /\ <>(/\ pc = "collected"
          /\ result.em0 = "failed"
          /\ result.em1 = "failed"
          /\ result.daylight => result.hm = "failed")

C27_Witness ==
    /\ pc = "collected"
    /\ result.em0 = "failed"
    /\ result.em1 = "failed"
    /\ result.hm = "failed"
    /\ argument.retryIndex = DefaultNumberOfRetries

(***************************************************************************)
(* The three checksum functions on their own, and the places that write a  *)
(* checksum to the wire or compare one read from it.  The variable         *)
(* argument holds the byte string, result what the call returned.          *)
(***************************************************************************)

(* Longest byte string made of CrcBytes. *)
MaxCrcLen == 3

CrcBytes == {0, 1, 128, 255}

(* b'123456789' *)
CheckString == <<49, 50, 51, 52, 53, 54, 55, 56, 57>>

(* The byte strings: all short ones over CrcBytes, every string of one     *)
(* byte, b'123456789', short ones followed by their CRC16 high byte first, *)
(* as an inverter sends its readings, or low byte first, and SML frames as *)
(* sent, with the two checksum bytes swapped and with one byte damaged.    *)
CrcInputs ==
    LET short  == UNION { [1..k -> CrcBytes] : k \in 0..MaxCrcLen }
        frames == { SmlFrame(body, 0) : body \in {<<114, 98, 5, 0>>, <<114, 16, 0>>} }
    IN  short
        \cup { <<b>> : b \in 0..255 }
        \cup { CheckString }
        \cup { d \o ToBytesBig(CalculateCrc16(d, Len(d)), 2) : d \in short }
        \cup { d \o <<CalculateCrc16(d, Len(d)) % 256, CalculateCrc16(d, Len(d)) \div 256>> :
                   d \in short }
        \cup frames
        \cup { SubSeq(f, 1, Len(f) - 2) \o <<f[Len(f)], f[Len(f) - 1]>> : f \in frames }
        \cup { WithByteChanged(f, i) : f \in frames, i \in {9, -2, -1} }

InitCrc ==
    /\ pc = "crc"
    /\ argument \in CrcInputs
    /\ result = << >>
    /\ NoObject
    /\ NoQuery

(* __CalculateCrc8(argument, dataLen). *)
CallCalculateCrc8 ==
    /\ pc = "crc"
    /\ \E dataLen \in 0..Len(argument) :
           result' = [function |-> "Crc8", dataLen |-> dataLen,
                      value |-> CalculateCrc8(argument, dataLen)]
    /\ pc' = "crc-done"
    /\ UNCHANGED <<argument, objectVars, queryVars>>

(* __CalculateCrc16(argument, dataLen). *)
CallCalculateCrc16 ==
    /\ pc = "crc"
    /\ \E dataLen \in 0..Len(argument) :
           result' = [function |-> "Crc16", dataLen |-> dataLen,
                      value |-> CalculateCrc16(argument, dataLen)]
    /\ pc' = "crc-done"
    /\ UNCHANGED <<argument, objectVars, queryVars>>

(* __CalculateSmlCrc16(argument, dataLen). *)
CallCalculateSmlCrc16 ==
    /\ pc = "crc"
    /\ \E dataLen \in 0..Len(argument) :
           result' = [function |-> "SmlCrc16", dataLen |-> dataLen,
                      value |-> __CalculateSmlCrc16(argument, dataLen)]
    /\ pc' = "crc-done"
    /\ UNCHANGED <<argument, objectVars, queryVars>>

(* The payload checksum of __CreateRequestInfoPacket, lines 647-648, for   *)
(* the payload argument:                                                   *)
(*   payloadChecksum = __CalculateCrc16(payload, len(payload))             *)
(*   packet.extend(payloadChecksum.to_bytes(2, "big", signed=False))       *)
AppendPayloadChecksum ==
    /\ pc = "crc"
    /\ result' = [function |-> "payloadChecksum", dataLen |-> Len(argument),
                  value |-> argument
                            \o ToBytesBig(CalculateCrc16(argument, Len(argument)), 2)]
    /\ pc' = "crc-done"
    /\ UNCHANGED <<argument, objectVars, queryVars>>

(* The checksum test of __ExtractInverterInfo, lines 288-290, for the      *)
(* response data argument.                                                 *)
CheckPayloadChecksum ==
    /\ pc = "crc"
    /\ result' = [function |-> "crc1 = crc2", dataLen |-> Len(argument) - 2,
                  value |-> PayloadCrcMatches(argument)]
    /\ pc' = "crc-done"
    /\ UNCHANGED <<argument, objectVars, queryVars>>

(* The checksum test of DecodeSmlMessages, lines 156-159, reached when the *)
(* tests of lines 134-150 before it have passed.                           *)
CheckSmlChecksum ==
    /\ pc = "crc"
    /\ LET count == Len(argument)
       IN  /\ PySliceAny(argument, 0, 4) = __ESCAPE_SEQUENCE
           /\ PySliceAny(argument, 4, 8) = __SML_START
           /\ PySliceAny(argument, count - 8, count - 4) = __ESCAPE_SEQUENCE
           /\ PyIndexExists(argument, count - 4)
           /\ PyIndex(argument, count - 4) = 26
           /\ PyIndexExists(argument, count - 3)
    /\ result' = [function |-> "checkSum1 = checkSum2", dataLen |-> Len(argument) - 2,
                  value |-> SmlChecksumMatches(argument)]
    /\ pc' = "crc-done"
    /\ UNCHANGED <<argument, objectVars, queryVars>>

NextCrc ==
    \/ CallCalculateCrc8
    \/ CallCalculateCrc16
    \/ CallCalculateSmlCrc16
    \/ AppendPayloadChecksum
    \/ CheckPayloadChecksum
    \/ CheckSmlChecksum

SpecCrc == InitCrc /\ [][NextCrc]_vars

(* Bit k of the message data, counted from 0, each byte taken from its     *)
(* most significant bit on or from its least significant bit on.           *)
MessageBit(data, k, msbFirst) ==
    LET byte == data[(k \div 8) + 1]
    IN  IF msbFirst THEN (byte \div (2 ^ (7 - (k % 8)))) % 2
        ELSE (byte \div (2 ^ (k % 8))) % 2

(* The CRC of 8 bits computed one message bit at a time in a shift         *)
(* register that shifts to the left: the bit leaving the register and the  *)
(* message bit decide whether the low 8 bits of the polynomial are added.  *)
RECURSIVE Crc8BitByBit(_, _, _, _, _)
Crc8BitByBit(data, nbits, k, reg, poly) ==
    IF reg >= 0 /\ k >= nbits THEN reg
    ELSE IF nbits - k > 16
    THEN LET half == k + ((nbits - k) \div 2)
         IN  Crc8BitByBit(data, nbits, half, Crc8BitByBit(data, half, k, reg, poly), poly)
    ELSE LET feedback == ((reg \div 128) + MessageBit(data, k, TRUE)) % 2
             shifted  == (reg * 2) % 256
         IN  Crc8BitByBit(data, nbits, k + 1,
                          IF feedback = 1 THEN BitXor(shifted, poly % 256) ELSE shifted,
                          poly)

(* C28: __CalculateCrc8(data, n) is the CRC of the first n bytes with the  *)
(* polynomial 0x101, most significant bit first, initial value 0 and no    *)
(* final XOR; it lies in 0..255, and for b'123456789' it is 0x31.          *)
C28_Crc8IsCrcPoly101 ==
    (pc = "crc-done" /\ result.function = "Crc8") =>
        /\ result.value = Crc8BitByBit(argument, 8 * result.dataLen, 0, 0, 257)
        /\ result.value \in 0..255
        /\ (argument = CheckString /\ result.dataLen = 9) => result.value = 49

C28_Witness ==
    /\ pc = "crc-done"
    /\ result.function = "Crc8"
    /\ argument = CheckString
    /\ result.dataLen = 9
    /\ result.value = 49

(* The CRC of 16 bits computed one message bit at a time, least            *)
(* significant bit of each byte first, in a shift register that shifts to  *)
(* the right: the bit leaving the register and the message bit decide      *)
(* whether the reversed polynomial is added.  A long run of bits is        *)
(* evaluated as its first half followed by its second half.                *)
RECURSIVE ReflectedCrc16BitByBit(_, _, _, _, _)
ReflectedCrc16BitByBit(data, nbits, k, reg, reversedPoly) ==
    IF reg >= 0 /\ k >= nbits THEN reg
    ELSE IF nbits - k > 16
    THEN LET half == k + ((nbits - k) \div 2)
         IN  ReflectedCrc16BitByBit(data, nbits, half,
                 ReflectedCrc16BitByBit(data, half, k, reg, reversedPoly), reversedPoly)
    ELSE LET feedback == ((reg % 2) + MessageBit(data, k, FALSE)) % 2
             shifted  == reg \div 2
         IN  ReflectedCrc16BitByBit(data, nbits, k + 1,
                 IF feedback = 1 THEN BitXor(shifted, reversedPoly) ELSE shifted,
                 reversedPoly)

(* C29: __CalculateCrc16(data, n) is the reflected CRC of the first n      *)
(* bytes with the polynomial 0x8005 (reversed 0xA001), initial value       *)
(* 0xFFFF and no final XOR; it lies in 0..65535, and for b'123456789' it   *)
(* is 0x4B37.  The request carries it after the payload high byte first,   *)
(* and the last two bytes of a response, read high byte first, are         *)
(* compared with it.                                                       *)
C29_Crc16IsReflectedCrcPoly8005 ==
    pc = "crc-done" =>
        /\ result.function = "Crc16" =>
               /\ result.value
                      = ReflectedCrc16BitByBit(argument, 8 * result.dataLen, 0, 65535, 40961)
               /\ result.value \in 0..65535
               /\ (argument = CheckString /\ result.dataLen = 9) => result.value = 19255
        /\ result.function = "payloadChecksum" =>
               LET crc == ReflectedCrc16BitByBit(argument, 8 * Len(argument), 0, 65535, 40961)
               IN  result.value = argument \o <<crc \div 256, crc % 256>>
        /\ (result.function = "crc1 = crc2" /\ Len(argument) >= 2) =>
               LET n == Len(argument)
               IN  result.value
                       = (256 * argument[n - 1] + argument[n]
                              = ReflectedCrc16BitByBit(argument, 8 * (n - 2), 0, 65535, 40961))

C29_Witness ==
    /\ pc = "crc-done"
    /\ result.function = "crc1 = crc2"
    /\ result.value
    /\ Len(argument) = 5
    /\ argument[4] # argument[5]

(* C30: the table-driven __CalculateSmlCrc16(data, n) is the CRC-16/X-25   *)
(* of the first n bytes computed bit by bit: reflected, polynomial 0x1021  *)
(* (reversed 0x8408), initial value 0xFFFF, final XOR 0xFFFF; it lies in   *)
(* 0..65535.  The decoder compares it with the last two bytes of the       *)
(* buffer read low byte first.                                             *)
C30_SmlCrcIsX25 ==
    pc = "crc-done" =>
        /\ result.function = "SmlCrc16" =>
               /\ result.value
                      = 65535 - ReflectedCrc16BitByBit(argument, 8 * result.dataLen, 0,
                                                       65535, 33800)
               /\ result.value \in 0..65535
        /\ result.function = "checkSum1 = checkSum2" =>
               LET n == Len(argument)
               IN  result.value
                       = (argument[n - 1] + 256 * argument[n]
                              = 65535 - ReflectedCrc16BitByBit(argument, 8 * (n - 2), 0,
                                                               65535, 33800))

C30_Witness ==
    /\ pc = "crc-done"
    /\ result.function = "checkSum1 = checkSum2"
    /\ result.value
    /\ argument[Len(argument) - 1] # argument[Len(argument)]

(***************************************************************************)
(* QueryInverterInfo with the scan taken slot by slot.  The variable       *)
(* argument holds what the radio and the scan loop hold: the channel the   *)
(* radio is tuned to, its receive buffer, the loop variable                *)
(* rxChannelIndex, and, for every frame the scan has read, the frame as    *)
(* received with the number of its arrival and the write it arrived after. *)
(* The inverter of the query has one channel; frames arrive while the      *)
(* radio is listening, and onAir holds the frames that senders transmit    *)
(* during the query: the two frames of the response, and a frame with a    *)
(* byte pair that is no escape code.                                       *)
(***************************************************************************)

(* Largest number of frames the receive buffer of the radio holds; the     *)
(* nRF24L01 has room for three.                                            *)
RxFifoSize == 3

(* Largest number of frames that reach the radio during one query. *)
MaxArrivals == 2

scanFrame == <<inverterSerialNumber, dtuRadioAddress, inverterRadioAddress,
               inverterNumberOfChannels, radioReady, paLevel, numberOfRetries, retryIndex,
               currentTime, txPacket, verdict, outcome, writeCount, sleepCount, result>>

(* QueryInverterInfo(numberOfRetries = MaxRetries) has reached its loop,   *)
(* lines 152-162, on an object whose radio is initialised.                 *)
InitScan ==
    /\ pc = "loop"
    /\ inverterSerialNumber = <<"1", "1", "2", "1", "8", "2", "3", "4", "5", "6", "7", "8">>
    /\ \E u \in UuidValues : dtuRadioAddress = GenerateDtuRadioAddress(u)
    /\ inverterRadioAddress = GetInverterRadioAddress(inverterSerialNumber).value
    /\ inverterNumberOfChannels = GetInverterNumberOfChannels(inverterSerialNumber).value
    /\ radioReady = TRUE
    /\ paLevel = "MAX"
    /\ listening = FALSE
    /\ gcEnabled = TRUE
    /\ numberOfRetries = MaxRetries
    /\ retryIndex = 0
    /\ txChannel = 0
    /\ rxChannelList = << >>
    /\ currentTime = <<0, 0>>
    /\ txPacket = << >>
    /\ responseList = << >>
    /\ verdict = "none"
    /\ outcome = Pending
    /\ writeCount = 0
    /\ scanCount = 0
    /\ sleepCount = 0
    /\ argument = [channel |-> 0, fifo |-> << >>, rxChannelIndex |-> 0, arrivals |-> 0,
                   collected |-> << >>,
                   onAir |-> { GoodFrame(inverterRadioAddress, inverterNumberOfChannels, 1),
                               GoodFrame(inverterRadioAddress, inverterNumberOfChannels, 2),
                               BadEscapeFrame(inverterRadioAddress) }]
    /\ result = << >>

(* A frame reaches the listening radio, from the inverter or from another  *)
(* sender, and is put into the receive buffer.  The scan it arrives in is  *)
(* the one after the last write, 0 outside a scan.                         *)
FrameArrives ==
    /\ pc \in {"scan", "poll", "scanned", "evaluate", "loop", "attempt", "send"}
    /\ listening
    /\ Len(argument.fifo) < RxFifoSize
    /\ argument.arrivals < MaxArrivals
    /\ \E frame \in argument.onAir :
           argument' = [argument EXCEPT
                            !.arrivals = @ + 1,
                            !.fifo = Append(@, [frame |-> frame,
                                                number |-> argument.arrivals + 1,
                                                scan |-> IF pc \in {"scan", "poll"}
                                                         THEN writeCount ELSE 0])]
    /\ UNCHANGED <<pc, listening, gcEnabled, txChannel, rxChannelList, responseList,
                   scanCount, scanFrame>>

(* radio.flush_rx() left out: with it C35 fails. *)
FlushRxLeftOut(fifo) == fifo

(* radio.flush_rx(), line 241. *)
FlushRx(fifo) == << >>

(* __SendRequestAndScanForResponses up to the write, lines 234-241: the    *)
(* empty response list, gc.disable(), radio.stopListening(),               *)
(* radio.setChannel(txChannel), radio.flush_rx().                          *)
TuneAndFlush ==
    /\ pc = "send"
    /\ responseList' = << >>
    /\ gcEnabled' = FALSE
    /\ listening' = FALSE
    /\ argument' = [argument EXCEPT !.channel = txChannel, !.fifo = FlushRx(@),
                                    !.rxChannelIndex = 0, !.collected = << >>]
    /\ pc' = "write"
    /\ UNCHANGED <<txChannel, rxChannelList, scanCount, scanFrame>>

(* The channel of a slot with the list taken modulo 2: with it C31 fails. *)
SlotChannelOfTwo(channelList, index) == channelList[(index % 2) + 1]

(* rxChannel = rxChannelList[rxChannelIndex % 3], line 250. *)
SlotChannel(channelList, index) == channelList[(index % 3) + 1]

(* The head of the first slot, lines 249-254: the first value of           *)
(* range(100), the channel of the slot, radio.setChannel(rxChannel) and    *)
(* the end time.                                                           *)
BeginSlot ==
    /\ pc = "scan"
    /\ argument.rxChannelIndex = 0
    /\ argument' = [argument EXCEPT
                        !.channel = SlotChannel(rxChannelList, argument.rxChannelIndex)]
    /\ pc' = "poll"
    /\ UNCHANGED <<listening, gcEnabled, txChannel, rxChannelList, responseList,
                   scanCount, scanFrame>>

(* radio.available() is true, lines 257-264: the first frame of the        *)
(* receive buffer is read and leaves the buffer, the rest of the buffer is *)
(* flushed, the frame is appended.                                         *)
ReadAvailable ==
    /\ pc = "poll"
    /\ Len(argument.fifo) > 0
    /\ responseList' = Append(responseList, Head(argument.fifo).frame)
    /\ argument' = [argument EXCEPT !.collected = Append(@, Head(argument.fifo)),
                                    !.fifo = FlushRx(Tail(@))]
    /\ UNCHANGED <<pc, listening, gcEnabled, txChannel, rxChannelList, scanCount, scanFrame>>

(* time.time_ns() < endTime is false, line 256: the slot is over, and the  *)
(* next one begins with its channel and its end time, lines 249-254,       *)
(* unless range(100) is used up.                                           *)
SlotTimeout ==
    /\ pc = "poll"
    /\ IF argument.rxChannelIndex + 1 < ScanSlots
       THEN /\ argument' = [argument EXCEPT
                                !.rxChannelIndex = @ + 1,
                                !.channel = SlotChannel(rxChannelList,
                                                        argument.rxChannelIndex + 1)]
            /\ pc' = "poll"
       ELSE /\ argument' = [argument EXCEPT !.rxChannelIndex = @ + 1]
            /\ pc' = "scanned"
    /\ UNCHANGED <<listening, gcEnabled, txChannel, rxChannelList, responseList,
                   scanCount, scanFrame>>

(* The end of the scan, lines 266-273: the finally clause enables the      *)
(* garbage collector, the collected frames are unescaped in place.  An     *)
(* error raised while unescaping leaves QueryInverterInfo through its      *)
(* finally clause.                                                         *)
EndScan ==
    /\ pc = "scanned"
    /\ LET arrivals == [i \in 1..Len(responseList) |->
                           [raw |-> responseList[i],
                            unescaped |-> UnescapeData(responseList[i])]]
       IN  IF \E i \in 1..Len(arrivals) : arrivals[i].unescaped.raised
           THEN /\ pc' = "done"
                /\ responseList' = PartlyUnescaped(arrivals)
                /\ verdict' = "unescapeError"
                /\ paLevel' = FinallyPaLevel
                /\ outcome' = Raised
           ELSE /\ pc' = "evaluate"
                /\ responseList' = [i \in 1..Len(arrivals) |-> arrivals[i].unescaped.value]
                /\ UNCHANGED <<verdict, paLevel, outcome>>
    /\ gcEnabled' = TRUE
    /\ scanCount' = scanCount + 1
    /\ txChannel' = 0
    /\ rxChannelList' = << >>
    /\ argument' = [argument EXCEPT !.rxChannelIndex = 0]
    /\ UNCHANGED <<objectVars, radioReady, listening, numberOfRetries, retryIndex,
                   currentTime, txPacket, writeCount, sleepCount, result>>

NextScan ==
    \/ LoopHead
    \/ BeginAttempt
    \/ TuneAndFlush
    \/ WriteRequest
    \/ StartListening
    \/ BeginSlot
    \/ ReadAvailable
    \/ SlotTimeout
    \/ EndScan
    \/ EvaluateResponses
    \/ FrameArrives

SpecScan == InitScan /\ [][NextScan]_vars

(* C31: during the scan of an attempt the radio listens in slot k, k in    *)
(* 0..99, on entry k mod 3 of the receive list of the transmit channel;    *)
(* a frame read from the radio is the oldest one it holds and is appended  *)
(* to the response list, so the list holds the frames read in the order of *)
(* their arrival; the frames handed to the evaluation are the collected    *)
(* frames unescaped.                                                       *)
C31_ScanSlotsAndCollection ==
    /\ [](/\ pc = "poll" =>
                 /\ argument.rxChannelIndex \in 0..99
                 /\ rxChannelList = RX_CHANNEL_LISTS[txChannel]
                 /\ argument.channel = rxChannelList[(argument.rxChannelIndex % 3) + 1]
          /\ pc \in {"scan", "poll", "scanned"} =>
                 /\ responseList = [i \in 1..Len(argument.collected) |->
                                        argument.collected[i].frame]
                 /\ \A i, j \in 1..Len(argument.collected) :
                        i < j => argument.collected[i].number < argument.collected[j].number
          /\ pc = "evaluate" =>
                 /\ Len(responseList) = Len(argument.collected)
                 /\ \A i \in 1..Len(responseList) :
                        /\ ~UnescapeData(argument.collected[i].frame).raised
                        /\ responseList[i] = UnescapeData(argument.collected[i].frame).value)
    /\ [][(pc = "poll" /\ pc' = "poll" /\ responseList' # responseList) =>
              /\ Len(argument.fifo) > 0
              /\ responseList' = Append(responseList, Head(argument.fifo).frame)]_vars

C31_Witness ==
    /\ pc = "evaluate"
    /\ Len(responseList) = 2
    /\ responseList[1] # argument.collected[1].frame
    /\ responseList[1] # responseList[2]

(* C34: the radio is not listening when the request is written, and it is  *)
(* listening when a frame is read.  In every attempt the radio has left    *)
(* the listening mode, is tuned to the transmit channel and has an empty   *)
(* receive buffer when the one request of the attempt is written, and the  *)
(* scan runs in listening mode; when a retry begins the radio is still     *)
(* listening.                                                              *)
C34_HalfDuplexOrder ==
    /\ [](/\ pc = "write" =>
                 /\ ~listening
                 /\ argument.channel = txChannel
                 /\ argument.fifo = << >>
                 /\ writeCount = retryIndex
          /\ pc \in {"scan", "poll", "scanned"} => listening
          /\ pc \in {"listen", "scan", "poll", "scanned", "evaluate"} =>
                 writeCount = retryIndex + 1
          /\ pc \in {"loop", "attempt", "send"} =>
                 /\ writeCount = retryIndex
                 /\ retryIndex > 0 => listening)
    /\ [][/\ writeCount' # writeCount => (~listening /\ writeCount' = writeCount + 1)
          /\ Len(responseList') > Len(responseList) => listening]_vars

C34_Witness ==
    /\ pc = "write"
    /\ retryIndex = 1
    /\ ~listening
    /\ argument.arrivals > 0

(* C35: the frames evaluated for an attempt were all received during the   *)
(* scan of that attempt, after its request was written: the response list  *)
(* starts empty and the receive buffer is flushed before the write, so a   *)
(* frame that reached the radio during an earlier attempt or between two   *)
(* attempts is never in the list.                                          *)
C35_OnlyFramesOfOwnScan ==
    /\ pc = "write" => (responseList = << >> /\ argument.fifo = << >>)
    /\ pc \in {"listen", "scan", "poll", "scanned", "evaluate"} =>
           /\ Len(responseList) = Len(argument.collected)
           /\ \A i \in 1..Len(argument.collected) : argument.collected[i].scan = writeCount

C35_Witness ==
    /\ pc = "evaluate"
    /\ writeCount = 2
    /\ argument.arrivals = 2
    /\ Len(responseList) = 1
    /\ argument.collected[1].number = 2

(***************************************************************************)
(* Reading extraction on reassembled messages of any length                *)
(***************************************************************************)

(* Lengths of the data part of a reassembled message: the 30, 42 and 62    *)
(* bytes of the three inverter families, and shorter and longer ones as    *)
(* frames with other payload sizes give them.                              *)
ReadingDataLengths == {0, 10, 29, 30, 31, 42, 62}

(* Messages with a right and with a wrong CRC16, for every number of       *)
(* channels an object can have.                                            *)
ReadingInputs ==
    LET datas    == { SampleData(length, seed) :
                          length \in ReadingDataLengths, seed \in DataSeeds }
                        \cup { InverterData1, InverterData2 }
        messages == UNION { { InverterMessage(data), WithWrongCrc(InverterMessage(data)) } :
                            data \in datas }
    IN  { [responseData |-> message, numberOfChannels |-> n] :
              message \in messages, n \in {1, 2, 4} }

InitReadings ==
    /\ pc = "readings"
    /\ argument \in ReadingInputs
    /\ result = << >>
    /\ NoObject
    /\ NoQuery

(* __ExtractInverterInfo(responseData, numberOfChannels), lines 275-303. *)
ExtractReadings ==
    /\ pc = "readings"
    /\ result' = ExtractInverterInfo(argument.responseData, argument.numberOfChannels)
    /\ pc' = "readings-done"
    /\ UNCHANGED <<argument, objectVars, queryVars>>

NextReadings == ExtractReadings

SpecReadings == InitReadings /\ [][NextReadings]_vars

(* Test.py's DecodeDataInverterTyp1, lines 89-109; None is << >>. *)
DecodeDataInverterTyp1(data) ==
    IF Len(data) # 30 THEN << >>
    ELSE ("DcV" :> <<IntFromBytesBig(PySlice(data, 2, 4)), 10>>) @@
         ("DcI" :> <<IntFromBytesBig(PySlice(data, 4, 6)), 100>>) @@
         ("DcP" :> <<IntFromBytesBig(PySlice(data, 6, 8)), 10>>) @@
         ("DcTotalE" :> <<IntFromBytesBig(PySlice(data, 8, 12)), 1000>>) @@
         ("DcDayE" :> <<IntFromBytesBig(PySlice(data, 12, 14)), 1>>) @@
         ("AcV" :> <<IntFromBytesBig(PySlice(data, 14, 16)), 10>>) @@
         ("AcF" :> <<IntFromBytesBig(PySlice(data, 16, 18)), 100>>) @@
         ("AcP" :> <<IntFromBytesBig(PySlice(data, 18, 20)), 10>>) @@
         ("Q" :> <<IntFromBytesBig(PySlice(data, 20, 22)), 10>>) @@
         ("AcI" :> <<IntFromBytesBig(PySlice(data, 22, 24)), 100>>) @@
         ("AcPF" :> <<IntFromBytesBig(PySlice(data, 24, 26)), 1000>>) @@
         ("T" :> <<IntFromBytesBig(PySlice(data, 26, 28)), 10>>) @@
         ("EVT" :> <<IntFromBytesBig(PySlice(data, 28, 30)), 1>>)

(* Test.py's DecodeDataInverterTyp2, lines 111-136. *)
DecodeDataInverterTyp2(data) ==
    IF Len(data) # 42 THEN << >>
    ELSE ("DcV1" :> <<IntFromBytesBig(PySlice(data, 2, 4)), 10>>) @@
         ("DcI1" :> <<IntFromBytesBig(PySlice(data, 4, 6)), 100>>) @@
         ("DcP1" :> <<IntFromBytesBig(PySlice(data, 6, 8)), 10>>) @@
         ("DcV2" :> <<IntFromBytesBig(PySlice(data, 8, 10)), 10>>) @@
         ("DcI2" :> <<IntFromBytesBig(PySlice(data, 10, 12)), 100>>) @@
         ("DcP2" :> <<IntFromBytesBig(PySlice(data, 12, 14)), 10>>) @@
         ("DcTotalE1" :> <<IntFromBytesBig(PySlice(data, 14, 18)), 1000>>) @@
         ("DcTotalE2" :> <<IntFromBytesBig(PySlice(data, 18, 22)), 1000>>) @@
         ("DcDayE1" :> <<IntFromBytesBig(PySlice(data, 22, 24)), 1>>) @@
         ("DcDayE2" :> <<IntFromBytesBig(PySlice(data, 24, 26)), 1>>) @@
         ("AcV" :> <<IntFromBytesBig(PySlice(data, 26, 28)), 10>>) @@
         ("AcF" :> <<IntFromBytesBig(PySlice(data, 28, 30)), 100>>) @@
         ("AcP" :> <<IntFromBytesBig(PySlice(data, 30, 32)), 10>>) @@
         ("Q" :> <<IntFromBytesBig(PySlice(data, 32, 34)), 10>>) @@
         ("AcI" :> <<IntFromBytesBig(PySlice(data, 34, 36)), 100>>) @@
         ("AcPF" :> <<IntFromBytesBig(PySlice(data, 36, 38)), 1000>>) @@
         ("T" :> <<IntFromBytesBig(PySlice(data, 38, 40)), 10>>) @@
         ("EVT" :> <<IntFromBytesBig(PySlice(data, 40, 42)), 1>>)

(* The readings of a map as one sequence: the fields of each channel in    *)
(* the order DC V, DC I, DC P, DC E total, DC E day, then the              *)
(* inverter-level fields.                                                  *)
RECURSIVE ChannelReadings(_, _)
ChannelReadings(channels, i) ==
    IF i > Len(channels) THEN << >>
    ELSE <<channels[i]["DC V"], channels[i]["DC I"], channels[i]["DC P"],
           channels[i]["DC E total"], channels[i]["DC E day"]>>
         \o ChannelReadings(channels, i + 1)

ReadingsOf(info) ==
    ChannelReadings(info["Channels"], 1)
    \o <<info["AC V"], info["AC F"], info["AC P"], info["Q"], info["AC I"],
         info["AC PF"], info["T"], info["EVT"]>>

(* The same fields of the maps of the reference decoders. *)
ReferenceReadings1(ref) ==
    <<ref["DcV"], ref["DcI"], ref["DcP"], ref["DcTotalE"], ref["DcDayE"],
      ref["AcV"], ref["AcF"], ref["AcP"], ref["Q"], ref["AcI"], ref["AcPF"],
      ref["T"], ref["EVT"]>>

ReferenceReadings2(ref) ==
    <<ref["DcV1"], ref["DcI1"], ref["DcP1"], ref["DcTotalE1"], ref["DcDayE1"],
      ref["DcV2"], ref["DcI2"], ref["DcP2"], ref["DcTotalE2"], ref["DcDayE2"],
      ref["AcV"], ref["AcF"], ref["AcP"], ref["Q"], ref["AcI"], ref["AcPF"],
      ref["T"], ref["EVT"]>>

(* The data with the byte at index k changed to another byte below 128. *)
WithDataByteChanged(data, k) == [data EXCEPT ![k + 1] = (data[k + 1] + 1) % 128]

(* The number of readings in which two reading sequences differ. *)
ReadingsChanged(a, b) == Cardinality({ i \in 1..Len(a) : a[i] # b[i] })

(* C32: for every message of the expected size with a right CRC16, the     *)
(* readings the decoder of a one-channel or two-channel inverter returns   *)
(* are, field by field, the integer and the divisor the reference decoder  *)
(* of Test.py gives for the data part; and the byte ranges of the fields   *)
(* are pairwise disjoint: changing one byte of the data changes at most    *)
(* one reading.                                                            *)
C32_DecoderMatchesReference ==
    (pc = "readings-done" /\ result.success /\ argument.numberOfChannels \in {1, 2})
    => LET data == PySliceAny(argument.responseData, 0, 0 - 2)
           ref  == IF argument.numberOfChannels = 1
                   THEN DecodeDataInverterTyp1(data)
                   ELSE DecodeDataInverterTyp2(data)
           read(d) == IF argument.numberOfChannels = 1
                      THEN ReadingsOf(ExtractInverterInfoOneChannel(d))
                      ELSE ReadingsOf(ExtractInverterInfoTwoChannels(d))
       IN  ref # << >>
           => /\ ReadingsOf(result.info)
                    = IF argument.numberOfChannels = 1
                      THEN ReferenceReadings1(ref) ELSE ReferenceReadings2(ref)
              /\ \A k \in 0..(Len(data) - 1) :
                    ReadingsChanged(read(data), read(WithDataByteChanged(data, k))) <= 1

(* A two-channel message of 42 data bytes has been decoded, the readings   *)
(* are those of the sample data (DC V of channel 2 is 38.3 V).             *)
C32_Witness ==
    /\ pc = "readings-done"
    /\ argument.numberOfChannels = 2
    /\ argument.responseData = InverterMessage(InverterData2)
    /\ result.success
    /\ result.info["Channels"][2]["DC V"] = <<383, 10>>
    /\ result.info["AC P"] = <<1300, 10>>

(* C33 as stated: readings are returned only for a message of exactly the  *)
(* expected size, 30 data bytes and the CRC16 for one channel, 42 and the  *)
(* CRC16 for two.  The model refutes it: __ExtractInverterInfo compares    *)
(* the CRC16 and nothing else, so a message of 10 data bytes with a right  *)
(* CRC16 gives a reading map whose fields come from empty slices and from  *)
(* the CRC16 bytes.                                                        *)
C33_OnlyExpectedSize ==
    (pc = "readings-done" /\ result.success /\ argument.numberOfChannels \in {1, 2})
    => Len(argument.responseData) = (IF argument.numberOfChannels = 1 THEN 30 ELSE 42) + 2

(***************************************************************************)
(* Database.py: storing the inverter readings                              *)
(***************************************************************************)

__READINGS_INVERTER_CHANNEL == <<"DC V", "DC I", "DC P", "DC E day", "DC E total">>

__READINGS_INVERTER == <<"AC V", "AC I", "AC F", "AC P", "AC Q", "AC PF", "T">>

(* Whether InsertDataInverter(readings) raises before it builds the SQL    *)
(* statement, lines 117-124: KeyError for a missing key, the data format   *)
(* error for a "Channels" entry that is no list, IndexError for a missing  *)
(* channel.  A list is a sequence, a reading a pair.                       *)
InsertDataInverterRaises(readings) ==
    \/ "Channels" \notin DOMAIN readings
    \/ LET readingsCh == readings["Channels"]
       IN  \/ Len(readingsCh) < 1
           \/ \E k \in 1..Len(__READINGS_INVERTER_CHANNEL) :
                  __READINGS_INVERTER_CHANNEL[k] \notin DOMAIN readingsCh[1]
           \/ Len(readingsCh) < 2
           \/ \E k \in 1..Len(__READINGS_INVERTER_CHANNEL) :
                  __READINGS_INVERTER_CHANNEL[k] \notin DOMAIN readingsCh[2]
    \/ \E k \in 1..Len(__READINGS_INVERTER) :
           __READINGS_INVERTER[k] \notin DOMAIN readings

(* C36 as stated: every reading map a successful QueryInverterInfo returns *)
(* can be stored by InsertDataInverter.  The model refutes it: the writer  *)
(* reads the key "AC Q", the decoders store the reactive power under "Q",  *)
(* and the map of a one-channel inverter has no second channel entry.      *)
C36_ReadingsCanBeStored ==
    (pc = "done" /\ outcome.kind = "returned" /\ outcome.success)
    => ~InsertDataInverterRaises(outcome.info)

(* C37 as stated: every value __DecodeValue returns ends after the         *)
(* position it started at.  The model refutes it: for the byte 70, a list  *)
(* of 0 children, valueEndPos is pos + dataLen = pos, and the for loop     *)
(* that would move it runs no iteration.                                   *)
C37_ValueAdvancesPosition ==
    (pc = "value" /\ ~result.raised) => result.value.valueEndPos > argument.pos

(***************************************************************************)
(* DecodeSmlMessages step by step: one step per iteration of the while     *)
(* loop of DecodeSmlMessages, per call of __DecodeValue, per iteration of  *)
(* the while loop of __DecodeTypeLengthField and per iteration of the for  *)
(* loop over the children of a list.  The variable argument holds the      *)
(* buffer and the local variables: pos and the number of messages of the   *)
(* outer loop, the position at of the current call of __DecodeValue, the   *)
(* position tlfPos of the type-length loop, one stack entry per list whose *)
(* children are being decoded, what the last call returned, and pastBody:  *)
(* whether a byte string or an integer has been built from a slice that    *)
(* ends after the message body.                                            *)
(***************************************************************************)

(* The marker and checksum checks of DecodeSmlMessages, lines 131-160. *)
PassesSmlChecks(data) ==
    LET count == Len(data)
    IN  /\ PySliceAny(data, 0, 4) = __ESCAPE_SEQUENCE
        /\ PySliceAny(data, 4, 8) = __SML_START
        /\ PySliceAny(data, count - 8, count - 4) = __ESCAPE_SEQUENCE
        /\ PyIndexExists(data, count - 4)
        /\ PyIndex(data, count - 4) = 26
        /\ SmlChecksumMatches(data)

(* Bodies of lists that declare 15 children, nested three deep, with       *)
(* lists of 0 children inside, a type-length field with the continuation   *)
(* bit inside a nested list, and bodies that end in an integer or a byte   *)
(* string declared one byte longer than what is left of the body.          *)
StepBodies ==
    SmlBodies
    \cup { <<127, 0>>, <<127, 112, 0>>, <<127, 127, 127, 112>>, <<127, 127, 127, 0>>,
           <<114, 114, 114, 0, 0, 0>>, <<114, 115, 98, 5, 240, 1, 0>>,
           <<113, 0, 113, 0, 113, 0>>, <<127, 127, 98, 5, 112, 0>>,
           <<114, 99, 1>>, <<114, 4, 65, 66>> }

StepBuffers ==
    { data \in { SmlFrame(body, fill) : body \in StepBodies, fill \in 0..MaxFill } :
          PassesSmlChecks(data) }

NoReturn == [valueEndPos |-> 0, endOfMsg |-> FALSE]

(* The checks are passed, line 162-163: messageList = [], pos = 8. *)
InitSteps ==
    /\ pc = "while"
    /\ \E data \in StepBuffers :
           argument = [data |-> data,
                       lastMsgBodyIndex |-> Len(data) - 8 - PyIndex(data, Len(data) - 3),
                       pos |-> 8, messages |-> 0, at |-> 0, tlfPos |-> 0,
                       stack |-> << >>, ret |-> NoReturn, pastBody |-> FALSE]
    /\ result = << >>
    /\ NoObject
    /\ NoQuery

(* The head of the while loop, line 164, and the call of line 165; the     *)
(* loop left, the list is returned, line 172.                              *)
WhileHead ==
    /\ pc = "while"
    /\ IF argument.pos < argument.lastMsgBodyIndex
       THEN /\ argument' = [argument EXCEPT !.at = argument.pos]
            /\ pc' = "value"
            /\ UNCHANGED result
       ELSE /\ result' = SmlReturned(argument.messages)
            /\ pc' = "returned"
            /\ UNCHANGED argument
    /\ UNCHANGED <<objectVars, queryVars>>

(* A call of __DecodeValue returns valueEndPos and endOfMsg, line 106;     *)
(* sliced tells whether the value is data[valueStartPos:valueEndPos].      *)
ReturnFromValue(valueEndPos, endOfMsg, sliced) ==
    /\ argument' = [argument EXCEPT !.ret = [valueEndPos |-> valueEndPos,
                                             endOfMsg |-> endOfMsg],
                                    !.at = 0, !.tlfPos = 0,
                                    !.pastBody = @ \/ (sliced /\ valueEndPos
                                                          > argument.lastMsgBodyIndex)]
    /\ pc' = "return"
    /\ UNCHANGED result

(* An exception leaves every call in progress. *)
RaiseFromValue(error) ==
    /\ result' = SmlRaised(error)
    /\ pc' = "raised"
    /\ UNCHANGED argument

(* __DecodeValue(data, at) from its first line to the branch taken, lines  *)
(* 74-104, for a type-length field of one byte; a first byte with the bit  *)
(* 0x80 enters the while loop of __DecodeTypeLengthField, lines 54-58.     *)
EnterValue ==
    /\ pc = "value"
    /\ LET data == argument.data
           pos  == argument.at
       IN  IF ~PyIndexExists(data, pos) THEN RaiseFromValue("IndexError")
           ELSE LET tlField  == PyIndex(data, pos)
                    dataType == (tlField \div 16) % 8
                    dataLen  == tlField % 16
                    valueStartPos == pos + 1
                    valueEndPos   == pos + dataLen
                IN  IF tlField >= 128
                    THEN /\ argument' = [argument EXCEPT !.tlfPos = pos]
                         /\ pc' = "tlf"
                         /\ UNCHANGED result
                    ELSE IF tlField = 0 THEN ReturnFromValue(pos + 1, TRUE, FALSE)
                    ELSE IF dataType = __DATA_TYPE_STR /\ dataLen >= 1
                    THEN ReturnFromValue(valueEndPos, FALSE, TRUE)
                    ELSE IF dataType = __DATA_TYPE_BOOL /\ dataLen = 2
                    THEN IF ~PyIndexExists(data, valueStartPos)
                         THEN RaiseFromValue("IndexError")
                         ELSE ReturnFromValue(valueEndPos, FALSE, FALSE)
                    ELSE IF dataType \in {__DATA_TYPE_INT, __DATA_TYPE_UINT}
                            /\ dataLen >= 2 /\ dataLen <= 9
                    THEN ReturnFromValue(valueEndPos, FALSE, TRUE)
                    ELSE IF dataType = __DATA_TYPE_LIST
                    THEN /\ argument' =
                                [argument EXCEPT
                                    !.stack = Append(@, [remaining |-> dataLen,
                                                         valueStartPos |-> valueStartPos,
                                                         valueEndPos |-> valueEndPos,
                                                         endOfMsg |-> FALSE]),
                                    !.at = 0]
                         /\ pc' = "for"
                         /\ UNCHANGED result
                    ELSE RaiseFromValue("Unknown data type")
    /\ UNCHANGED <<objectVars, queryVars>>

(* The position the type-length loop reads next with the data restarted    *)
(* at its end: with it C38 fails.                                          *)
NextTlfPosWrapped(data, pos) == (pos + 1) % Len(data)

(* pos += 1, line 55. *)
NextTlfPos(data, pos) == pos + 1

(* One iteration of the while loop of __DecodeTypeLengthField, lines 54-58.*)
(* The condition tests tlField, which the body never assigns, so the next  *)
(* iteration follows unless data[pos] raises IndexError.                   *)
TlfLoopStep ==
    /\ pc = "tlf"
    /\ LET pos == NextTlfPos(argument.data, argument.tlfPos)
       IN  IF ~PyIndexExists(argument.data, pos)
           THEN RaiseFromValue("IndexError")
           ELSE /\ argument' = [argument EXCEPT !.tlfPos = pos]
                /\ pc' = "tlf"
                /\ UNCHANGED result
    /\ UNCHANGED <<objectVars, queryVars>>

(* The head of the for loop over the children of the innermost list, line  *)
(* 97: the next child is decoded from valueStartPos, line 98, or, the      *)
(* range used up, the list returns, line 106.                              *)
ForHead ==
    /\ pc = "for"
    /\ LET top == argument.stack[Len(argument.stack)]
       IN  IF top.remaining > 0
           THEN /\ argument' = [argument EXCEPT
                                   !.stack[Len(argument.stack)].remaining = @ - 1,
                                   !.at = top.valueStartPos]
                /\ pc' = "value"
           ELSE /\ argument' = [argument EXCEPT
                                   !.stack = SubSeq(@, 1, Len(@) - 1),
                                   !.ret = [valueEndPos |-> top.valueEndPos,
                                            endOfMsg |-> top.endOfMsg]]
                /\ pc' = "return"
    /\ UNCHANGED <<result, objectVars, queryVars>>

(* The caller takes what __DecodeValue returned: the for loop, lines       *)
(* 98-99, or the while loop of DecodeSmlMessages, lines 165-170.           *)
TakeReturn ==
    /\ pc = "return"
    /\ IF Len(argument.stack) > 0
       THEN /\ argument' = [argument EXCEPT
                               !.stack[Len(argument.stack)].valueEndPos =
                                   argument.ret.valueEndPos,
                               !.stack[Len(argument.stack)].endOfMsg =
                                   argument.ret.endOfMsg,
                               !.stack[Len(argument.stack)].valueStartPos =
                                   argument.ret.valueEndPos,
                               !.ret = NoReturn]
            /\ pc' = "for"
            /\ UNCHANGED result
       ELSE IF ~argument.ret.endOfMsg
       THEN RaiseFromValue("missing end of message")
       ELSE /\ argument' = [argument EXCEPT !.pos = argument.ret.valueEndPos,
                                            !.messages = @ + 1,
                                            !.ret = NoReturn]
            /\ pc' = "while"
            /\ UNCHANGED result
    /\ UNCHANGED <<objectVars, queryVars>>

NextSteps ==
    \/ WhileHead
    \/ EnterValue
    \/ TlfLoopStep
    \/ ForHead
    \/ TakeReturn

(* The decoder is one sequential routine: it takes its next step as long   *)
(* as it has one.                                                          *)
SpecSteps == InitSteps /\ [][NextSteps]_vars /\ WF_vars(NextSteps)

(* C38: on every buffer that passes the marker and checksum checks,        *)
(* DecodeSmlMessages comes to an end, by returning its message list or by  *)
(* raising an error, also for a type-length field with the bit 0x80 (the   *)
(* type-length loop ends with IndexError at the end of the buffer) and for *)
(* nested lists of any declared number of children; the end is the one     *)
(* DecodeSmlMessages as a function gives: the same error, or the same      *)
(* number of messages.                                                     *)
C38_DecodeSmlMessagesTerminates ==
    /\ <>(pc \in {"returned", "raised"})
    /\ [](pc \in {"returned", "raised"}
          => LET whole == DecodeSmlMessages(argument.data)
             IN  /\ whole.raised = (pc = "raised")
                 /\ whole.error = result.error
                 /\ ~whole.raised => Len(whole.value) = result.value)

(* The type-length loop has run to the end of a buffer whose body has a    *)
(* type-length field with the bit 0x80 inside a list, and IndexError has   *)
(* ended the decoding.                                                     *)
C38_Witness ==
    /\ pc = "raised"
    /\ result.error = "IndexError"
    /\ argument.tlfPos = Len(argument.data) - 1
    /\ Len(argument.stack) = 2
    /\ PyIndex(argument.data, 12) = 240

(* C39 as stated: when a byte string or an integer is declared longer than *)
(* what is left of the message body, DecodeSmlMessages ends in an error    *)
(* and returns no message list.  The model refutes it: the slice           *)
(* data[valueStartPos:valueEndPos] takes the fill bytes that follow the    *)
(* body, a fill byte after it is read as the end of the message, and the   *)
(* list is returned.                                                       *)
C39_LengthPastBodyRaises ==
    pc = "returned" => ~argument.pastBody

(* C40 as stated: when a receive routine that disabled the garbage         *)
(* collector has ended, the collector is enabled again: after              *)
(* __ReceiveInfoData of the meter reader has returned (the next meter is   *)
(* about to be selected, or the daylight test is next) and when the poll   *)
(* cycle is over.  The model refutes it: __ReceiveInfoData enables the     *)
(* collector only in its except clause, and returns the data from inside   *)
(* the try block.                                                          *)
C40_GcEnabledAfterReceive ==
    pc \in {"select1", "daylight", "collected"} => gcEnabled

====
